---- MODULE Spec2Model ----
(***************************************************************************)
(* Verification model of the mini-crossword core:                          *)
(*   - WordBankProcessor   (src/src/lib/wordbank.ts)                       *)
(*   - GridAnalyzer        (src/src/lib/grid-analyzer.ts)                  *)
(*   - CrosswordGenerator  (src/unnamed/part_003, backtracking generator)  *)
(* Words and patterns are sequences of one-character strings.              *)
(***************************************************************************)
EXTENDS Integers, Sequences, FiniteSets, TLC

VARIABLES
    file,           \* spreadthewordlist.txt: [exists, lines]
    query,          \* the WordQuery the client of the word bank asks
    initialized,    \* WordBankProcessor.initialized
    wordsByLength,  \* WordBank.wordsByLength
    positionIndex,  \* WordBank.positionIndex
    patternCache,   \* WordBank.patternCache
    wbResult,       \* what the last word bank call returned
    gaMask,         \* the CrosswordMask handed to GridAnalyzer.buildGrid
    gaGrid,         \* the CrosswordGrid: [cells, slots]
    gaPlaced,       \* per slot, the word last placed and not removed (<<>>: none)
    gaLast,         \* the last GridAnalyzer call: [op, slot, length, outcome, had, result]
    template,       \* the CrosswordMask handed to generateCrossword: [id, grid]
    genPc,          \* where generateCrossword stands
    genSlots,       \* generateCrossword: slots
    sortedSlots,    \* generateCrossword: sortedSlots
    genGrid,        \* generateCrossword: grid
    assignments,    \* backtrackFill: assignments, slot id -> word
    stack,          \* the backtrackFill calls not yet returned, innermost last
    returned,       \* the value the innermost finished backtrackFill returned
    generated,      \* what generateCrossword settled with
    genLast,        \* the last step of backtrackFill: [step, slotIndex], and
                    \* removals: the placed words removed again so far
    history,        \* WordHistoryManager.history
    options,        \* generate: [seed, templateId, maxAttempts]
    attempts,       \* generate: attempts
    lastError,      \* generate: lastError
    usedWords,      \* CrosswordGenerator.usedWords (generate)
    selected,       \* generate: the template of the last attempt
    drvPc,          \* where generate stands
    drvResult,      \* what generate settled with
    maxAttempts,    \* CrosswordGenerator.maxAttempts (this.maxAttempts)
    calls,          \* the generate calls on the singleton: call -> its locals
    runQueue        \* the calls whose continuation is queued, first to run first

wbVars == <<file, query, initialized, wordsByLength, positionIndex,
            patternCache, wbResult>>

gaVars == <<gaMask, gaGrid, gaPlaced, gaLast>>

genVars == <<template, genPc, genSlots, sortedSlots, genGrid, assignments,
             stack, returned, generated, genLast, history>>

drvVars == <<options, attempts, lastError, usedWords, selected, drvPc, drvResult,
             maxAttempts, calls, runQueue>>

vars == <<wbVars, gaVars, genVars, drvVars>>

----------------------------------------------------------------------------
(* Bounds *)

MaxLines == 3       \* lines of the dictionary file
MaxBlack == 2       \* black cells of an enumerated mask
MaxAttemptsBound == 3   \* the largest options.maxAttempts handed to generate

----------------------------------------------------------------------------
(* Characters, words, frequencies *)

Wild == "?"
Letters == {"a", "b"}
Lengths == {3, 4, 5}

\* String.prototype.toLowerCase, one character
ToLowerChar(c) == CASE c = "A" -> "a" [] c = "B" -> "b" [] OTHER -> c

toLowerCase(w) == [i \in 1..Len(w) |-> ToLowerChar(w[i])]

RECURSIVE TrimLeft(_)
TrimLeft(w) == IF w # <<>> /\ Head(w) = " " THEN TrimLeft(Tail(w)) ELSE w

RECURSIVE TrimRight(_)
TrimRight(w) ==
    IF w # <<>> /\ w[Len(w)] = " " THEN TrimRight(SubSeq(w, 1, Len(w) - 1)) ELSE w

\* String.prototype.trim
trim(w) == TrimRight(TrimLeft(w))

\* /^[a-z]+$/.test(w)
IsAlphabetic(w) == Len(w) >= 1 /\ \A i \in 1..Len(w) : w[i] \in Letters

\* A frequency is a JavaScript number: an integer or NaN
Num(n) == [nan |-> FALSE, n |-> n]
NaN == [nan |-> TRUE, n |-> 0]

\* options.seed: a number or undefined
NoSeed == [given |-> FALSE, n |-> 0]
Seed(n) == [given |-> TRUE, n |-> n]

\* parseInt(frequencyStr, 10): the leading digits, NaN when there are none
parseInt(s) ==
    CASE s = "1" -> Num(1)
      [] s = "2" -> Num(2)
      [] s = "3" -> Num(3)
      [] s = "2x" -> Num(2)
      [] OTHER -> NaN

\* line.split(';'): a line is the sequence of its ';'-separated fields;
\* a destructured field that is absent is undefined, which is falsy like ''
Field(line, i) == IF i <= Len(line) THEN line[i] ELSE <<>>
FreqField(line) == IF 2 <= Len(line) THEN line[2] ELSE ""

----------------------------------------------------------------------------
(* The dictionary files of the model *)

DictPool ==
    << << <<"a","a","b">>, "1" >>,
       << <<"a","b","b">>, "3" >>,
       << <<"A","b","a">>, "2x" >>,
       << <<"a","b","a","b">>, "x" >>,
       << <<"a","b","b","a">>, "2" >>,
       << <<" ","a","b","a","b","a"," ">>, "1" >>,
       << <<"a","1","b">>, "3" >>,
       << <<"b","b","b">> >> >>

\* the subsequences of DictPool with at most MaxLines lines
RECURSIVE PickLines(_, _)
PickLines(from, n) ==
    IF from > Len(DictPool) \/ n = 0 THEN {<<>>}
    ELSE PickLines(from + 1, n)
         \cup {<<DictPool[from]>> \o r : r \in PickLines(from + 1, n - 1)}

Files ==
    {[exists |-> FALSE, lines |-> <<>>]}
    \cup {[exists |-> TRUE, lines |-> l] : l \in PickLines(1, MaxLines)}

RECURSIVE PatternsOfLength(_)
PatternsOfLength(n) ==
    IF n = 0 THEN {<<>>}
    ELSE {<<c>> \o p : c \in Letters \cup {Wild}, p \in PatternsOfLength(n - 1)}

Queries ==
    UNION {{[length |-> L, pattern |-> p] : p \in PatternsOfLength(L)} : L \in Lengths}

----------------------------------------------------------------------------
(* Masks *)

size == 5
Coords == 0..(size - 1)
Cells == Coords \X Coords

White == "."
Black == "#"

\* the mask whose black cells are B
MaskOf(B) == [cell \in Cells |-> IF cell \in B THEN Black ELSE White]

\* the mask written as five rows of five symbols
MaskOfRows(rows) == [cell \in Cells |-> rows[cell[1] + 1][cell[2] + 1]]

\* the cell with reading-order index k
CellAt(k) == <<k \div size, k % size>>

\* the sets of at most n cells among those of reading-order index >= from
RECURSIVE PickCells(_, _)
PickCells(from, n) ==
    IF from >= size * size \/ n = 0 THEN {{}}
    ELSE PickCells(from + 1, n)
         \cup {{CellAt(from)} \cup B : B \in PickCells(from + 1, n - 1)}

DiagnosticMask ==
    MaskOfRows(<< <<".", ".", ".", "#", "#">>,
                  <<".", "#", "#", "#", "#">>,
                  <<".", "#", "#", "#", "#">>,
                  <<"#", "#", "#", "#", "#">>,
                  <<"#", "#", "#", "#", "#">> >>)

TemplateT1 == MaskOf({})

TemplateT2 ==
    MaskOfRows(<< <<".", ".", "#", ".", ".">>,
                  <<".", ".", ".", ".", ".">>,
                  <<"#", ".", ".", ".", "#">>,
                  <<".", ".", ".", ".", ".">>,
                  <<".", ".", "#", ".", ".">> >>)

TemplateT3 ==
    MaskOfRows(<< <<"#", ".", ".", ".", "#">>,
                  <<".", ".", ".", ".", ".">>,
                  <<".", ".", ".", ".", ".">>,
                  <<".", ".", ".", ".", ".">>,
                  <<"#", ".", ".", ".", "#">> >>)

TemplateT4 ==
    MaskOfRows(<< <<".", ".", ".", ".", ".">>,
                  <<".", ".", "#", ".", ".">>,
                  <<".", "#", ".", "#", ".">>,
                  <<".", ".", "#", ".", ".">>,
                  <<".", ".", ".", ".", ".">> >>)

TemplateT5 ==
    MaskOfRows(<< <<".", ".", "#", ".", ".">>,
                  <<".", "#", ".", "#", ".">>,
                  <<"#", ".", ".", ".", "#">>,
                  <<".", "#", ".", "#", ".">>,
                  <<".", ".", "#", ".", ".">> >>)

TemplateT6 ==
    MaskOfRows(<< <<".", "#", ".", "#", ".">>,
                  <<"#", ".", ".", ".", "#">>,
                  <<".", ".", ".", ".", ".">>,
                  <<"#", ".", ".", ".", "#">>,
                  <<".", "#", ".", "#", ".">> >>)

TemplateT7 ==
    MaskOfRows(<< <<".", ".", ".", ".", ".">>,
                  <<".", ".", "#", ".", ".">>,
                  <<".", "#", "#", "#", ".">>,
                  <<".", ".", "#", ".", ".">>,
                  <<".", ".", ".", ".", ".">> >>)

TemplateT8 ==
    MaskOfRows(<< <<".", ".", ".", ".", ".">>,
                  <<".", "#", ".", "#", ".">>,
                  <<".", ".", ".", ".", ".">>,
                  <<".", "#", ".", "#", ".">>,
                  <<".", ".", ".", ".", ".">> >>)

\* templates.ts: the catalog, in its order
CROSSWORD_TEMPLATES ==
    << [id |-> "t1", grid |-> TemplateT1], [id |-> "t2", grid |-> TemplateT2],
       [id |-> "t3", grid |-> TemplateT3], [id |-> "t4", grid |-> TemplateT4],
       [id |-> "t5", grid |-> TemplateT5], [id |-> "t6", grid |-> TemplateT6],
       [id |-> "t7", grid |-> TemplateT7], [id |-> "t8", grid |-> TemplateT8] >>

\* three slots of length 3: one across and two down, crossing at both ends
ArchMask ==
    MaskOfRows(<< <<".", ".", ".", "#", "#">>,
                  <<".", "#", ".", "#", "#">>,
                  <<".", "#", ".", "#", "#">>,
                  <<"#", "#", "#", "#", "#">>,
                  <<"#", "#", "#", "#", "#">> >>)

\* an across slot of length 5 crossed at its last cell by a down slot of length 4
HookMask ==
    MaskOfRows(<< <<".", ".", ".", ".", ".">>,
                  <<"#", "#", "#", "#", ".">>,
                  <<"#", "#", "#", "#", ".">>,
                  <<"#", "#", "#", "#", ".">>,
                  <<"#", "#", "#", "#", "#">> >>)

\* a down slot of length 3 crossed at both ends by an across slot of length 3
ForkMask ==
    MaskOfRows(<< <<".", ".", ".", "#", "#">>,
                  <<".", "#", "#", "#", "#">>,
                  <<".", ".", ".", "#", "#">>,
                  <<"#", "#", "#", "#", "#">>,
                  <<"#", "#", "#", "#", "#">> >>)

Masks ==
    {MaskOf(B) : B \in PickCells(0, MaxBlack)}
    \cup {DiagnosticMask, TemplateT2, TemplateT3, TemplateT4, ArchMask, HookMask}

----------------------------------------------------------------------------
(* WordBankProcessor: loading *)

\* initialize, lines 31-48: the WordEntry a line contributes, if any
LineAccepted(line) ==
    \E word \in {Field(line, 1)}, frequencyStr \in {FreqField(line)} :
        /\ word # <<>>
        /\ frequencyStr # ""
        /\ \E cleanWord \in {trim(toLowerCase(word))} :
              /\ Len(cleanWord) >= 3
              /\ Len(cleanWord) <= 5
              /\ IsAlphabetic(cleanWord)

LineEntry(line) ==
    [word |-> trim(toLowerCase(Field(line, 1))), frequency |-> parseInt(FreqField(line))]

\* the entries pushed by the loop over the lines, in file order
RECURSIVE ParsedEntries(_)
ParsedEntries(lines) ==
    IF lines = <<>> THEN <<>>
    ELSE (IF LineAccepted(Head(lines)) THEN <<LineEntry(Head(lines))>> ELSE <<>>)
         \o ParsedEntries(Tail(lines))

\* wordsByLength[L].push(wordEntry) for every accepted entry of length L
PushByLength(old, entries) ==
    [L \in Lengths |-> old[L] \o SelectSeq(entries, LAMBDA e : Len(e.word) = L)]

\* addToPositionIndex: the leaves are keyed <<length, letter, position>>,
\* positions counted from 1; a leaf exists once an entry was pushed to it
EntryKeys(e) == {<<Len(e.word), e.word[i], i>> : i \in 1..Len(e.word)}

\* (faulty variant) an entry is indexed by its first letter only
InLeafFirstOnly(e, key) == key = <<Len(e.word), e.word[1], 1>>

InLeaf(e, key) == key \in EntryKeys(e)

addToPositionIndex(old, entries) ==
    LET keys == DOMAIN old \cup UNION {EntryKeys(entries[k]) : k \in 1..Len(entries)}
    IN  [key \in keys |->
            (IF key \in DOMAIN old THEN old[key] ELSE <<>>)
            \o SelectSeq(entries, LAMBDA e : InLeaf(e, key))]

\* sortFn = (a, b) => b.frequency - a.frequency; NaN when either is NaN,
\* which Array.prototype.sort reads as 0
SortFnSign(a, b) ==
    IF a.frequency.nan \/ b.frequency.nan THEN 0
    ELSE IF b.frequency.n < a.frequency.n THEN -1
    ELSE IF b.frequency.n > a.frequency.n THEN 1
    ELSE 0

\* sortFn is a consistent comparison function for the elements of s
\* (ECMAScript, Array.prototype.sort): "equal" must be transitive
ConsistentComparator(s) ==
    \A i, j, k \in 1..Len(s) :
        (SortFnSign(s[i], s[j]) = 0 /\ SortFnSign(s[j], s[k]) = 0)
            => SortFnSign(s[i], s[k]) = 0

\* insertion of e into the sorted s, after every element that does not sort
\* after it (stable)
InsertSorted(e, s) ==
    SelectSeq(s, LAMBDA x : SortFnSign(x, e) <= 0)
    \o <<e>>
    \o SelectSeq(s, LAMBDA x : SortFnSign(x, e) > 0)

\* the stable sort of s by sortFn
RECURSIVE StableSort(_)
StableSort(s) ==
    IF s = <<>> THEN <<>>
    ELSE InsertSorted(s[Len(s)], StableSort(SubSeq(s, 1, Len(s) - 1)))

SeqPermutations(s) ==
    {[i \in 1..Len(s) |-> s[p[i]]] :
        p \in {q \in [1..Len(s) -> 1..Len(s)] :
                 \A i, j \in 1..Len(s) : i # j => q[i] # q[j]}}

\* array.sort(sortFn): the stable sort when sortFn is consistent on the
\* array; otherwise the order is implementation-defined
SortOutcomes(s) ==
    IF ConsistentComparator(s) THEN {StableSort(s)} ELSE SeqPermutations(s)

\* every function on keys that picks, for each key, one outcome of sorting
RECURSIVE SortEach(_, _)
SortEach(keys, unsorted) ==
    IF keys = {} THEN {<<>>}
    ELSE UNION {{(key :> s) @@ f : s \in SortOutcomes(unsorted[key]),
                                       f \in SortEach(keys \ {key}, unsorted)} :
                key \in {CHOOSE x \in keys : TRUE}}

\* sortByFrequency: the possible (wordsByLength, positionIndex) after it
sortByFrequency(byLength, index) ==
    {[wordsByLength |-> w, positionIndex |-> x] :
        w \in SortEach(Lengths, byLength), x \in SortEach(DOMAIN index, index)}

----------------------------------------------------------------------------
(* WordBankProcessor: queries *)

AllWild(L) == [i \in 1..L |-> Wild]

matchesPattern(word, pattern) ==
    /\ Len(word) = Len(pattern)
    /\ \A i \in 1..Len(word) : pattern[i] = Wild \/ pattern[i] = word[i]

\* the first non-wildcard position of the pattern, 0 when there is none
ConstrainedPos(pattern) ==
    LET fixed == {i \in 1..Len(pattern) : pattern[i] # Wild}
    IN  IF fixed = {} THEN 0 ELSE CHOOSE i \in fixed : \A j \in fixed : i <= j

\* findWordsMatching, lines 140-151: the seed list
SeedCandidates(L, pattern) ==
    LET pos == ConstrainedPos(pattern)
        key == <<L, pattern[pos], pos>>
    IN  IF pos > 0
        THEN (IF key \in DOMAIN positionIndex THEN positionIndex[key] ELSE <<>>)
        ELSE wordsByLength[L]

\* (faulty variant) the seed list returned without the filter against the pattern
ComputeMatchingNoFilter(L, pattern) ==
    IF pattern = AllWild(L) THEN wordsByLength[L] ELSE SeedCandidates(L, pattern)

\* findWordsMatching, lines 121-154: the result on a cache miss
ComputeMatching(L, pattern) ==
    IF pattern = AllWild(L) THEN wordsByLength[L]
    ELSE SelectSeq(SeedCandidates(L, pattern),
                   LAMBDA e : matchesPattern(e.word, pattern))

\* (faulty variant) the cache key leaves the pattern out
CacheKeyLengthOnly(L, pattern) == <<L, AllWild(L)>>

\* cacheKey = `${length}:${pattern}`
CacheKey(L, pattern) == <<L, pattern>>

\* findWordsMatching of an initialized word bank whose cache is `cache`
findWordsMatching(cache, L, pattern) ==
    IF CacheKey(L, pattern) \in DOMAIN cache THEN cache[CacheKey(L, pattern)]
    ELSE ComputeMatching(L, pattern)

\* the cache after that call
CacheAfter(cache, L, pattern) ==
    IF CacheKey(L, pattern) \in DOMAIN cache THEN cache
    ELSE (CacheKey(L, pattern) :> ComputeMatching(L, pattern)) @@ cache

NoResult == [call |-> "none", outcome |-> "none", length |-> 0,
             pattern |-> <<>>, entries |-> <<>>, cached |-> FALSE]

----------------------------------------------------------------------------
(* WordBankProcessor: the operations *)

EmptyLists == [L \in Lengths |-> <<>>]

NoCall == [op |-> "none", slot |-> 0, length |-> 0, outcome |-> "none",
           had |-> FALSE, result |-> <<>>]

NoGrid == [cells |-> <<>>, slots |-> <<>>]

\* no GridAnalyzer in use
GaIdle ==
    /\ gaMask = MaskOf({})
    /\ gaGrid = NoGrid
    /\ gaPlaced = <<>>
    /\ gaLast = [NoCall EXCEPT !.op = "idle"]

\* no generator in use
NoReturn == [kind |-> "none"]

GenIdle ==
    /\ template = [id |-> "none", grid |-> MaskOf({})]
    /\ genPc = "idle"
    /\ genSlots = <<>>
    /\ sortedSlots = <<>>
    /\ genGrid = <<>>
    /\ assignments = <<>>
    /\ stack = <<>>
    /\ returned = NoReturn
    /\ generated = NoReturn
    /\ genLast = [step |-> "none", slotIndex |-> 0, removals |-> 0]
    /\ history = <<>>

defaultMaxAttempts == 1000   \* private maxAttempts = 1000

\* no generate call in progress
NoTemplate == [id |-> "undefined", grid |-> MaskOf({})]

DrvIdle ==
    /\ options = [seed |-> NoSeed, templateId |-> "", maxAttempts |-> 0]
    /\ attempts = 0
    /\ lastError = ""
    /\ usedWords = {}
    /\ selected = NoTemplate
    /\ drvPc = "idle"
    /\ drvResult = NoReturn
    /\ maxAttempts = defaultMaxAttempts
    /\ calls = <<>>
    /\ runQueue = <<>>

WbInit ==
    /\ GaIdle
    /\ GenIdle
    /\ DrvIdle
    /\ file \in Files
    /\ query \in Queries
    /\ initialized = FALSE
    /\ wordsByLength = EmptyLists
    /\ positionIndex = <<>>
    /\ patternCache = <<>>
    /\ wbResult = NoResult

\* (faulty variant) initialize without its guard
NeverInitialized == FALSE

\* initialize, line 22
AlreadyInitialized == initialized

\* initialize(): a no-op once initialized; throws (readFileSync) when the
\* file is missing; otherwise loads, sorts and sets initialized
initializeOutcomes ==
    IF AlreadyInitialized
    THEN {[threw |-> FALSE, initialized |-> initialized,
           wordsByLength |-> wordsByLength, positionIndex |-> positionIndex]}
    ELSE IF ~file.exists
    THEN {[threw |-> TRUE, initialized |-> initialized,
           wordsByLength |-> wordsByLength, positionIndex |-> positionIndex]}
    ELSE UNION {UNION {{[threw |-> FALSE, initialized |-> TRUE,
                         wordsByLength |-> r.wordsByLength,
                         positionIndex |-> r.positionIndex] :
                            r \in sortByFrequency(byLength, index)} :
                       byLength \in {PushByLength(wordsByLength, entries)},
                       index \in {addToPositionIndex(positionIndex, entries)}} :
                entries \in {ParsedEntries(file.lines)}}

initialize ==
    /\ \E r \in initializeOutcomes :
          /\ wordsByLength' = r.wordsByLength
          /\ positionIndex' = r.positionIndex
          /\ initialized' = r.initialized
          /\ wbResult' = [NoResult EXCEPT !.call = "initialize",
                             !.outcome = IF r.threw THEN "throw" ELSE "ok"]
    /\ UNCHANGED <<file, query, patternCache>>

\* findWordsMatching(query)
FindWordsMatchingCall ==
    LET q == query IN
        /\ IF ~initialized
           THEN /\ wbResult' = [NoResult EXCEPT !.call = "find", !.outcome = "throw",
                                    !.length = q.length, !.pattern = q.pattern]
                /\ UNCHANGED patternCache
           ELSE /\ wbResult' =
                      [call |-> "find", outcome |-> "ok", length |-> q.length,
                       pattern |-> q.pattern,
                       entries |-> findWordsMatching(patternCache, q.length, q.pattern),
                       cached |-> CacheKey(q.length, q.pattern) \in DOMAIN patternCache]
                /\ patternCache' = CacheAfter(patternCache, q.length, q.pattern)
        /\ UNCHANGED <<file, query, initialized, wordsByLength, positionIndex>>

\* clearCache()
clearCache ==
    /\ patternCache # <<>>
    /\ patternCache' = <<>>
    /\ UNCHANGED <<file, query, initialized, wordsByLength, positionIndex,
                   wbResult>>

WbNext ==
    \/ initialize /\ UNCHANGED <<gaVars, genVars, drvVars>>
    \/ FindWordsMatchingCall /\ UNCHANGED <<gaVars, genVars, drvVars>>
    \/ clearCache /\ UNCHANGED <<gaVars, genVars, drvVars>>

SpecWordBank == WbInit /\ [][WbNext]_vars

----------------------------------------------------------------------------
(* Word bank: properties *)

Range(s) == {s[i] : i \in 1..Len(s)}

Count(s, e) == Cardinality({i \in 1..Len(s) : s[i] = e})

SameBag(s, t) == \A e \in Range(s) \cup Range(t) : Count(s, e) = Count(t, e)

\* the entries the dictionary file holds
DictionaryEntries == ParsedEntries(file.lines)

\* word agrees with pattern at every position that holds a letter
PositionwiseMatch(word, pattern) ==
    \A i \in 1..Len(pattern) : pattern[i] \in Letters => word[i] = pattern[i]

ExpectedMatches(L, pattern) ==
    SelectSeq(DictionaryEntries,
              LAMBDA e : Len(e.word) = L /\ PositionwiseMatch(e.word, pattern))

FindReturned == wbResult.call = "find" /\ wbResult.outcome = "ok"

\* C4: after initialize, findWordsMatching(L, P) returns exactly the
\* dictionary entries of length L that agree with P at every non-wildcard
\* position, each as often as the dictionary holds it, and nothing else.
C4_ExactMatches ==
    FindReturned =>
        SameBag(wbResult.entries, ExpectedMatches(wbResult.length, wbResult.pattern))

\* C4 witness: a query whose first fixed letter is not at the first position
\* returned some entries of its length and left others out.
C4_Witness ==
    /\ FindReturned
    /\ ConstrainedPos(wbResult.pattern) > 1
    /\ wbResult.entries # <<>>
    /\ Len(wbResult.entries) < Len(wordsByLength[wbResult.length])

\* a >= b on JavaScript numbers: false when either is NaN
NumGeq(a, b) == ~a.nan /\ ~b.nan /\ a.n >= b.n

InDescendingOrder(s) ==
    \A i, j \in 1..Len(s) : i < j => NumGeq(s[i].frequency, s[j].frequency)

\* C5: every list findWordsMatching returns is in non-increasing frequency
\* order, whichever branch (all-wildcard, positional index, cache) produced it.
C5_DescendingFrequency ==
    FindReturned => InDescendingOrder(wbResult.entries)

\* C6: a call of initialize on an initialized word bank changes neither the
\* per-length lists nor the positional index nor the result of the query.
C6_SecondInitializeNoOp ==
    [][(initialized /\ initialize) =>
          /\ wordsByLength' = wordsByLength
          /\ positionIndex' = positionIndex
          /\ initialized'
          /\ findWordsMatching(patternCache, query.length, query.pattern)'
               = findWordsMatching(patternCache, query.length, query.pattern)]_vars

\* C6 witness: initialize has returned on a word bank that had already been
\* loaded and queried.
C6_Witness ==
    /\ wbResult.call = "initialize"
    /\ wbResult.outcome = "ok"
    /\ patternCache # <<>>
    /\ DictionaryEntries # <<>>

\* the entries now in the store, per-length lists and index leaves
StoredEntries ==
    UNION {Range(wordsByLength[L]) : L \in Lengths}
    \cup UNION {Range(positionIndex[key]) : key \in DOMAIN positionIndex}

\* C14: initialize fails when the dictionary file is missing and when no
\* entry remains after filtering; the store is never marked initialized
\* with zero words.
C14_EmptyLoadFails ==
    /\ (wbResult.call = "initialize" /\ ~file.exists) => wbResult.outcome = "throw"
    /\ initialized => \E L \in Lengths : wordsByLength[L] # <<>>

\* the frequency field is a decimal number
NumericField(frequencyStr) == frequencyStr \in {"1", "2", "3"}

\* C15: a line without separator or with a non-numeric frequency contributes
\* no entry to the per-length lists or to the positional index, initialize
\* does not abort on it, and every stored entry has a numeric frequency.
C15_MalformedLinesSkipped ==
    /\ \A e \in StoredEntries : ~e.frequency.nan
    /\ \A k \in 1..Len(file.lines) :
          (Len(file.lines[k]) < 2 \/ ~NumericField(FreqField(file.lines[k])))
          => \A e \in StoredEntries :
                e.word # trim(toLowerCase(Field(file.lines[k], 1)))
    /\ (wbResult.call = "initialize" /\ file.exists) => wbResult.outcome = "ok"

----------------------------------------------------------------------------
(* GridAnalyzer: buildGrid *)

NoLetter == ""     \* GridCell.letter undefined
NoNumber == 0      \* GridCell.number undefined

\* one scan of detectSlots along a row or a column: whiteAt[pos] for pos in
\* 0..size-1, the position `size` standing for the boundary; `start` is the
\* open run's first position or -1; the result is the runs kept, in order
\* (faulty variant) the scan stops at the last cell, without the boundary sentinel
RECURSIVE ScanRunsNoSentinel(_, _, _)
ScanRunsNoSentinel(whiteAt, pos, start) ==
    IF pos >= size THEN <<>>
    ELSE LET isWhite == whiteAt[pos]
             length == pos - start
         IN  IF isWhite /\ start = -1 THEN ScanRunsNoSentinel(whiteAt, pos + 1, pos)
             ELSE IF ~isWhite /\ start # -1
             THEN (IF length >= 3 /\ length <= 5
                   THEN <<[start |-> start, length |-> length]>> ELSE <<>>)
                  \o ScanRunsNoSentinel(whiteAt, pos + 1, -1)
             ELSE ScanRunsNoSentinel(whiteAt, pos + 1, start)

RECURSIVE ScanRuns(_, _, _)
ScanRuns(whiteAt, pos, start) ==
    IF pos > size THEN <<>>
    ELSE LET isWhite == pos < size /\ whiteAt[pos]
             length == pos - start
         IN  IF isWhite /\ start = -1 THEN ScanRuns(whiteAt, pos + 1, pos)
             ELSE IF ~isWhite /\ start # -1
             THEN (IF length >= 3 /\ length <= 5
                   THEN <<[start |-> start, length |-> length]>> ELSE <<>>)
                  \o ScanRuns(whiteAt, pos + 1, -1)
             ELSE ScanRuns(whiteAt, pos + 1, start)

AcrossSlotOf(row, run) ==
    [direction |-> "across", startRow |-> row, startCol |-> run.start,
     length |-> run.length,
     cells |-> [k \in 1..run.length |-> <<row, run.start + k - 1>>],
     number |-> 0, pattern |-> AllWild(run.length)]

DownSlotOf(col, run) ==
    [direction |-> "down", startRow |-> run.start, startCol |-> col,
     length |-> run.length,
     cells |-> [k \in 1..run.length |-> <<run.start + k - 1, col>>],
     number |-> 0, pattern |-> AllWild(run.length)]

\* the across slots of rows row..size-1, then the down slots of columns
\* col..size-1, without their ids
RECURSIVE AcrossSlotsFrom(_, _)
AcrossSlotsFrom(mask, row) ==
    IF row >= size THEN <<>>
    ELSE LET runs == ScanRuns([c \in Coords |-> mask[<<row, c>>] = White], 0, -1)
         IN  [k \in 1..Len(runs) |-> AcrossSlotOf(row, runs[k])]
             \o AcrossSlotsFrom(mask, row + 1)

RECURSIVE DownSlotsFrom(_, _)
DownSlotsFrom(mask, col) ==
    IF col >= size THEN <<>>
    ELSE LET runs == ScanRuns([r \in Coords |-> mask[<<r, col>>] = White], 0, -1)
         IN  [k \in 1..Len(runs) |-> DownSlotOf(col, runs[k])]
             \o DownSlotsFrom(mask, col + 1)

\* detectSlots: slotId++ numbers the slots in the order they are pushed
detectSlots(mask) ==
    LET found == AcrossSlotsFrom(mask, 0) \o DownSlotsFrom(mask, 0)
    IN  [k \in 1..Len(found) |->
            [id |-> <<found[k].direction, k - 1>>,
             direction |-> found[k].direction,
             startRow |-> found[k].startRow, startCol |-> found[k].startCol,
             length |-> found[k].length, cells |-> found[k].cells,
             number |-> found[k].number, pattern |-> found[k].pattern]]

StartsAt(slot, cell) == slot.startRow = cell[1] /\ slot.startCol = cell[2]

\* assignClueNumbers from the cell of reading-order index k on
RECURSIVE AssignFrom(_, _, _, _)
AssignFrom(k, cells, slots, clueNumber) ==
    IF k >= size * size THEN [cells |-> cells, slots |-> slots]
    ELSE LET cell == CellAt(k)
             starting == {i \in 1..Len(slots) : StartsAt(slots[i], cell)}
         IN  IF cells[cell].type = Black \/ starting = {}
             THEN AssignFrom(k + 1, cells, slots, clueNumber)
             ELSE AssignFrom(k + 1,
                     [cells EXCEPT ![cell].number = clueNumber],
                     [i \in 1..Len(slots) |->
                         IF i \in starting
                         THEN [slots[i] EXCEPT !.number = clueNumber]
                         ELSE slots[i]],
                     clueNumber + 1)

\* (faulty variant) the clue numbers start at 0
assignClueNumbersFromZero(cells, slots) == AssignFrom(0, cells, slots, 0)

assignClueNumbers(cells, slots) == AssignFrom(0, cells, slots, 1)

buildGrid(mask) ==
    assignClueNumbers(
        [cell \in Cells |-> [type |-> mask[cell], letter |-> NoLetter,
                             number |-> NoNumber]],
        detectSlots(mask))

----------------------------------------------------------------------------
(* GridAnalyzer: patterns, placeWord, removeWord *)

\* gridCell.letter || '?'
LetterOrWild(letter) == IF letter = NoLetter THEN Wild ELSE letter

PatternOf(cells, slot) ==
    [k \in 1..Len(slot.cells) |-> LetterOrWild(cells[slot.cells[k]].letter)]

updateSlotPatterns(grid) ==
    [grid EXCEPT !.slots =
        [i \in 1..Len(grid.slots) |->
            [grid.slots[i] EXCEPT !.pattern = PatternOf(grid.cells, grid.slots[i])]]]

CoversCell(slot, cell) == \E k \in 1..Len(slot.cells) : slot.cells[k] = cell

\* placeWord, lines 236-239: the cells after the letters are written
WriteWord(cells, slot, word) ==
    [cell \in Cells |->
        IF \E k \in 1..Len(word) : slot.cells[k] = cell
        THEN [cells[cell] EXCEPT
                 !.letter = word[CHOOSE k \in 1..Len(word) : slot.cells[k] = cell]]
        ELSE cells[cell]]

\* (faulty variant) only the pattern of the slot that received the word is refreshed
placeWordOwnPattern(word, i, grid) ==
    [grid EXCEPT !.cells = WriteWord(grid.cells, grid.slots[i], word),
                 !.slots[i].pattern = word]

\* (faulty variant) only a word longer than the slot is refused
LengthMismatchLonger(word, slot) == Len(word) > slot.length

\* placeWord, line 231
LengthMismatch(word, slot) == Len(word) # slot.length

\* placeWord for word.length = slot.length
placeWord(word, i, grid) ==
    updateSlotPatterns([grid EXCEPT !.cells = WriteWord(grid.cells, grid.slots[i], word)])

\* removeWord, lines 254-257: some other slot uses the cell
UsedByOtherSlot(grid, i, cell) ==
    \E j \in 1..Len(grid.slots) :
        grid.slots[j].id # grid.slots[i].id /\ CoversCell(grid.slots[j], cell)

removeWord(i, grid) ==
    updateSlotPatterns(
        [grid EXCEPT !.cells =
            [cell \in Cells |->
                IF CoversCell(grid.slots[i], cell) /\ ~UsedByOtherSlot(grid, i, cell)
                THEN [grid.cells[cell] EXCEPT !.letter = NoLetter]
                ELSE grid.cells[cell]]])

----------------------------------------------------------------------------
(* GridAnalyzer: getIntersectingSlots, isValidPlacement *)

\* the pairs (targetIndex, intersectIndex) in the order of the two nested
\* loops of getIntersectingSlots, indices counted from 0
IndexPairs(n, m) ==
    [p \in 1..(n * m) |-> [targetIndex |-> (p - 1) \div m,
                           intersectIndex |-> (p - 1) % m]]

\* (faulty variant) the two indices of a crossing are pushed in the other order
CrossingsWithSwapped(targetSlot, slot) ==
    LET hits == SelectSeq(IndexPairs(Len(targetSlot.cells), Len(slot.cells)),
                    LAMBDA x : targetSlot.cells[x.targetIndex + 1]
                                   = slot.cells[x.intersectIndex + 1])
    IN  [k \in 1..Len(hits) |->
            [slot |-> slot.id, targetIndex |-> hits[k].intersectIndex,
             intersectIndex |-> hits[k].targetIndex]]

\* getIntersectingSlots, lines 180-194: the crossings of targetSlot with slot
CrossingsWith(targetSlot, slot) ==
    LET hits == SelectSeq(IndexPairs(Len(targetSlot.cells), Len(slot.cells)),
                    LAMBDA x : targetSlot.cells[x.targetIndex + 1]
                                   = slot.cells[x.intersectIndex + 1])
    IN  [k \in 1..Len(hits) |->
            [slot |-> slot.id, targetIndex |-> hits[k].targetIndex,
             intersectIndex |-> hits[k].intersectIndex]]

RECURSIVE IntersectionsFrom(_, _, _)
IntersectionsFrom(targetSlot, allSlots, k) ==
    IF k > Len(allSlots) THEN <<>>
    ELSE (IF allSlots[k].id = targetSlot.id
             \/ allSlots[k].direction = targetSlot.direction
          THEN <<>>
          ELSE CrossingsWith(targetSlot, allSlots[k]))
         \o IntersectionsFrom(targetSlot, allSlots, k + 1)

getIntersectingSlots(targetSlot, allSlots) ==
    IntersectionsFrom(targetSlot, allSlots, 1)

\* the slot an intersection refers to
SlotById(allSlots, id) ==
    allSlots[CHOOSE k \in 1..Len(allSlots) : allSlots[k].id = id]

\* (faulty variant) an empty crossing cell is taken for a letter
LetterConflictNoWild(existingLetter, requiredLetter) ==
    existingLetter # requiredLetter

\* isValidPlacement, line 219
LetterConflict(existingLetter, requiredLetter) ==
    existingLetter # Wild /\ existingLetter # requiredLetter

isValidPlacement(word, slot, grid) ==
    IF Len(word) # slot.length THEN FALSE
    ELSE LET intersections == getIntersectingSlots(slot, grid.slots)
         IN  \A k \in 1..Len(intersections) :
                ~LetterConflict(
                    SlotById(grid.slots, intersections[k].slot)
                        .pattern[intersections[k].intersectIndex + 1],
                    word[intersections[k].targetIndex + 1])

----------------------------------------------------------------------------
(* CrosswordGenerator (part_003, generate): buildPuzzleResult *)

\* String.prototype.toUpperCase
ToUpperChar(c) == CASE c = "a" -> "A" [] c = "b" -> "B" [] OTHER -> c

toUpperCase(str) == [i \in 1..Len(str) |-> ToUpperChar(str[i])]

\* buildPuzzleResult, lines 1015-1033: the entry of one slot
PuzzleEntry(slot) ==
    [num |-> slot.number, answer |-> toUpperCase(slot.pattern),
     row |-> slot.startRow, col |-> slot.startCol, length |-> slot.length,
     pattern |-> slot.pattern]

PuzzleEntries(slots, direction) ==
    LET kept == SelectSeq(slots, LAMBDA slot : slot.direction = direction)
    IN  [k \in 1..Len(kept) |-> PuzzleEntry(kept[k])]

\* buildPuzzleResult(grid, templateId, seed); an absent letter gives ''
buildPuzzleResult(grid, templateId, seed) ==
    [grid |-> [cell \in Cells |->
                  IF grid.cells[cell].type = Black THEN Black
                  ELSE grid.cells[cell].letter],
     across |-> PuzzleEntries(grid.slots, "across"),
     down |-> PuzzleEntries(grid.slots, "down"),
     meta |-> [templateId |-> templateId, seed |-> seed]]

----------------------------------------------------------------------------
(* GridAnalyzer: the operations *)

\* no word bank in use
WbIdle ==
    /\ file = [exists |-> FALSE, lines |-> <<>>]
    /\ query = [length |-> 3, pattern |-> AllWild(3)]
    /\ initialized = FALSE
    /\ wordsByLength = EmptyLists
    /\ positionIndex = <<>>
    /\ patternCache = <<>>
    /\ wbResult = NoResult

\* the words handed to placeWord
RECURSIVE WordsOfLength(_)
WordsOfLength(n) ==
    IF n = 0 THEN {<<>>}
    ELSE {<<c>> \o w : c \in Letters, w \in WordsOfLength(n - 1)}

GaWords ==
    WordsOfLength(3)
    \cup {<<"a","b","a","b">>, <<"b","a","b","a">>}
    \cup {<<"a","b","a","b","a">>, <<"b","a","b","a","b">>}

\* the masks on which words are placed and removed
OpMasks == {DiagnosticMask, ArchMask, HookMask}

GaBuildGrid ==
    /\ gaLast.op = "none"
    /\ gaGrid' = buildGrid(gaMask)
    /\ gaPlaced' = [i \in 1..Len(buildGrid(gaMask).slots) |-> <<>>]
    /\ gaLast' = [NoCall EXCEPT !.op = "build", !.outcome = "ok"]
    /\ UNCHANGED gaMask

\* GridAnalyzer.placeWord(word, slot, grid) for a word of `words`: throws on
\* a length mismatch
GaPlaceWordOf(words) ==
    /\ gaLast.op \notin {"none", "idle"}
    /\ \E i \in 1..Len(gaGrid.slots), word \in words :
          IF LengthMismatch(word, gaGrid.slots[i])
          THEN /\ gaLast' = [op |-> "place", slot |-> i, length |-> Len(word),
                             outcome |-> "throw", had |-> FALSE, result |-> <<>>]
               /\ UNCHANGED <<gaGrid, gaPlaced>>
          ELSE /\ gaGrid' = placeWord(word, i, gaGrid)
               /\ gaPlaced' = [gaPlaced EXCEPT ![i] = word]
               /\ gaLast' = [op |-> "place", slot |-> i, length |-> Len(word),
                             outcome |-> "ok", had |-> FALSE, result |-> word]
    /\ UNCHANGED gaMask

GaPlaceWord == GaPlaceWordOf(GaWords)

\* GridAnalyzer.removeWord(slot, grid)
GaRemoveWord ==
    /\ gaLast.op \notin {"none", "idle"}
    /\ \E i \in 1..Len(gaGrid.slots) :
          /\ gaGrid' = removeWord(i, gaGrid)
          /\ gaPlaced' = [gaPlaced EXCEPT ![i] = <<>>]
          /\ gaLast' = [op |-> "remove", slot |-> i, length |-> 0, outcome |-> "ok",
                       had |-> gaPlaced[i] # <<>>, result |-> <<>>]
    /\ UNCHANGED gaMask

\* GridAnalyzer.getIntersectingSlots(slot, grid.slots)
GaGetIntersectingSlots ==
    /\ gaLast.op \in {"build", "place", "remove"}
    /\ \E i \in 1..Len(gaGrid.slots) :
          gaLast' = [op |-> "intersections", slot |-> i, length |-> 0, outcome |-> "ok",
                     had |-> FALSE,
                     result |-> getIntersectingSlots(gaGrid.slots[i], gaGrid.slots)]
    /\ UNCHANGED <<gaMask, gaGrid, gaPlaced>>

\* GridAnalyzer.isValidPlacement(word, slot, grid)
GaIsValidPlacement ==
    /\ gaLast.op \in {"build", "place", "remove"}
    /\ \E i \in 1..Len(gaGrid.slots), word \in GaWords :
          gaLast' = [op |-> "valid", slot |-> i, length |-> Len(word),
                     outcome |-> "ok", had |-> FALSE,
                     result |-> [word |-> word,
                                 valid |-> isValidPlacement(word, gaGrid.slots[i], gaGrid)]]
    /\ UNCHANGED <<gaMask, gaGrid, gaPlaced>>

\* buildPuzzleResult(grid, templateId, seed) on the grid as it stands
GaBuildPuzzleResult ==
    /\ gaLast.op \in {"build", "place", "remove"}
    /\ gaLast' = [op |-> "puzzle", slot |-> 0, length |-> 0, outcome |-> "ok",
                  had |-> FALSE,
                  result |-> buildPuzzleResult(gaGrid, "t", NoSeed)]
    /\ UNCHANGED <<gaMask, gaGrid, gaPlaced>>

BuildInit ==
    /\ WbIdle
    /\ GenIdle
    /\ DrvIdle
    /\ gaMask \in Masks
    /\ gaGrid = NoGrid
    /\ gaPlaced = <<>>
    /\ gaLast = NoCall

BuildNext == GaBuildGrid /\ UNCHANGED <<wbVars, genVars, drvVars>>

\* buildGrid on every mask of the model
SpecBuild == BuildInit /\ [][BuildNext]_vars

GridInit ==
    /\ WbIdle
    /\ GenIdle
    /\ DrvIdle
    /\ gaMask \in OpMasks
    /\ gaGrid = NoGrid
    /\ gaPlaced = <<>>
    /\ gaLast = NoCall

GridNext ==
    \/ GaBuildGrid /\ UNCHANGED <<wbVars, genVars, drvVars>>
    \/ GaPlaceWord /\ UNCHANGED <<wbVars, genVars, drvVars>>
    \/ GaRemoveWord /\ UNCHANGED <<wbVars, genVars, drvVars>>

\* buildGrid, then any sequence of placeWord and removeWord
SpecGrid == GridInit /\ [][GridNext]_vars

CrossNext ==
    \/ GaBuildGrid /\ UNCHANGED <<wbVars, genVars, drvVars>>
    \/ GaGetIntersectingSlots /\ UNCHANGED <<wbVars, genVars, drvVars>>

\* buildGrid on every mask of the model, then getIntersectingSlots on a slot
SpecCross == BuildInit /\ [][CrossNext]_vars

ValidNext ==
    \/ GaBuildGrid /\ UNCHANGED <<wbVars, genVars, drvVars>>
    \/ gaLast.op # "valid" /\ GaPlaceWord /\ UNCHANGED <<wbVars, genVars, drvVars>>
    \/ gaLast.op # "valid" /\ GaRemoveWord /\ UNCHANGED <<wbVars, genVars, drvVars>>
    \/ GaIsValidPlacement /\ UNCHANGED <<wbVars, genVars, drvVars>>

\* buildGrid, any sequence of placeWord and removeWord, then isValidPlacement
\* (which changes nothing, so the grids it is asked about are those of SpecGrid)
SpecValid == GridInit /\ [][ValidNext]_vars

PuzzleNext ==
    \/ GaBuildGrid /\ UNCHANGED <<wbVars, genVars, drvVars>>
    \/ gaLast.op # "puzzle" /\ GaPlaceWord /\ UNCHANGED <<wbVars, genVars, drvVars>>
    \/ gaLast.op # "puzzle" /\ GaRemoveWord /\ UNCHANGED <<wbVars, genVars, drvVars>>
    \/ GaBuildPuzzleResult /\ UNCHANGED <<wbVars, genVars, drvVars>>

\* buildGrid, any sequence of placeWord and removeWord, then buildPuzzleResult
SpecPuzzle == GridInit /\ [][PuzzleNext]_vars

----------------------------------------------------------------------------
(* GridAnalyzer: properties *)

GaBuilt ==
    gaLast.op \in {"build", "place", "remove", "intersections", "valid", "puzzle"}

GaSlotIds == 1..Len(gaGrid.slots)

\* the letters now in the cells of slot i, '?' for an empty cell
CellString(i) ==
    [k \in 1..Len(gaGrid.slots[i].cells) |->
        IF gaGrid.cells[gaGrid.slots[i].cells[k]].letter = NoLetter THEN "?"
        ELSE gaGrid.cells[gaGrid.slots[i].cells[k]].letter]

\* C7: after buildGrid and any sequence of placeWord / removeWord calls, the
\* pattern of every slot is the string of the letters in its cells, with '?'
\* for each empty cell.
C7_PatternDerivation ==
    GaBuilt => \A i \in GaSlotIds : gaGrid.slots[i].pattern = CellString(i)

\* C7 witness: after a removal, a slot that holds no word of its own shows a
\* letter written by a crossing slot next to an empty cell.
C7_Witness ==
    /\ gaLast.op = "remove"
    /\ \E i \in GaSlotIds :
          /\ gaPlaced[i] = <<>>
          /\ \E k \in 1..Len(gaGrid.slots[i].pattern) :
                gaGrid.slots[i].pattern[k] \in Letters
          /\ \E k \in 1..Len(gaGrid.slots[i].pattern) :
                gaGrid.slots[i].pattern[k] = "?"

\* slot j holds a word whose letter at a cell shared with slot i is in that cell
HoldsCrossingLetter(grid, placed, i, j, cell) ==
    /\ j # i
    /\ placed[j] # <<>>
    /\ CoversCell(grid.slots[i], cell)
    /\ \E l \in 1..Len(grid.slots[j].cells) :
          grid.slots[j].cells[l] = cell /\ grid.cells[cell].letter = placed[j][l]

\* C8 (GridAnalyzer): removeWord(A) leaves in place the letter of every cell
\* of A that a placed crossing word B covers and agrees with.
GaRemovePreservesShared ==
    \A i \in GaSlotIds :
        (gaLast'.op = "remove" /\ gaLast'.slot = i /\ gaGrid' # gaGrid) =>
            \A j \in GaSlotIds, cell \in Cells :
                HoldsCrossingLetter(gaGrid, gaPlaced, i, j, cell) =>
                    gaGrid'.cells[cell].letter = gaGrid.cells[cell].letter

C8_Witness ==
    /\ gaLast.op = "remove"
    /\ gaLast.had
    /\ \E j \in GaSlotIds, cell \in Cells :
          HoldsCrossingLetter(gaGrid, gaPlaced, gaLast.slot, j, cell)
    /\ \E k \in 1..Len(gaGrid.slots[gaLast.slot].cells) :
          gaGrid.cells[gaGrid.slots[gaLast.slot].cells[k]].letter = NoLetter

IsWhiteCell(mask, r, c) == r \in Coords /\ c \in Coords /\ mask[<<r, c>>] = White

\* a maximal horizontal (dr = 0, dc = 1) or vertical (dr = 1, dc = 0) run of
\* n white cells starting at (r, c)
MaximalRun(mask, r, c, dr, dc, n) ==
    /\ \A k \in 0..(n - 1) : IsWhiteCell(mask, r + k * dr, c + k * dc)
    /\ ~IsWhiteCell(mask, r - dr, c - dc)
    /\ ~IsWhiteCell(mask, r + n * dr, c + n * dc)

ExpectedSlots(mask) ==
    {sh \in [direction : {"across"}, startRow : Coords, startCol : Coords,
             length : 3..5] :
        MaximalRun(mask, sh.startRow, sh.startCol, 0, 1, sh.length)}
    \cup
    {sh \in [direction : {"down"}, startRow : Coords, startCol : Coords,
             length : 3..5] :
        MaximalRun(mask, sh.startRow, sh.startCol, 1, 0, sh.length)}

SlotShape(slot) ==
    [direction |-> slot.direction, startRow |-> slot.startRow,
     startCol |-> slot.startCol, length |-> slot.length]

\* the cells of the slot are its `length` consecutive in-bounds white cells
\* from its start cell on, in its direction
CellsInLine(mask, slot) ==
    /\ Len(slot.cells) = slot.length
    /\ \A k \in 1..slot.length :
          /\ slot.cells[k] =
                IF slot.direction = "across"
                THEN <<slot.startRow, slot.startCol + k - 1>>
                ELSE <<slot.startRow + k - 1, slot.startCol>>
          /\ slot.cells[k] \in Cells
          /\ mask[slot.cells[k]] = White

\* C9: buildGrid yields exactly one slot for each maximal horizontal or
\* vertical white run of length 3..5 and no other slot; each slot's cells are
\* its consecutive white cells from its start cell; no slot is empty or has a
\* length outside 3..5; the diagnostic mask yields one across and one down
\* slot of length 3, both starting at (0,0).
C9_SlotsAreMaximalRuns ==
    gaLast.op = "build" =>
        /\ {SlotShape(gaGrid.slots[i]) : i \in GaSlotIds} = ExpectedSlots(gaMask)
        /\ Len(gaGrid.slots) = Cardinality(ExpectedSlots(gaMask))
        /\ \A i \in GaSlotIds :
              /\ CellsInLine(gaMask, gaGrid.slots[i])
              /\ gaGrid.slots[i].length \in 3..5
              /\ gaGrid.slots[i].cells # <<>>
        /\ gaMask = DiagnosticMask =>
              /\ Len(gaGrid.slots) = 2
              /\ SlotShape(gaGrid.slots[1]) =
                    [direction |-> "across", startRow |-> 0, startCol |-> 0, length |-> 3]
              /\ SlotShape(gaGrid.slots[2]) =
                    [direction |-> "down", startRow |-> 0, startCol |-> 0, length |-> 3]

\* C9 witness: a built grid with slots of length 3, 4 and 5 on a mask that
\* also has a white run too short to be a slot.
C9_Witness ==
    /\ gaLast.op = "build"
    /\ \A n \in 3..5 : \E i \in GaSlotIds : gaGrid.slots[i].length = n
    /\ \E cell \in Cells : MaximalRun(gaMask, cell[1], cell[2], 0, 1, 2)

ReadingIndex(r, c) == r * size + c

SlotStart(slot) == <<slot.startRow, slot.startCol>>

\* C10: every slot number is >= 1; the numbers used are exactly 1..k; two
\* slots have the same number iff they start at the same cell; numbers grow
\* with the reading order of the start cells; the start cell of each slot
\* carries the slot's number in the cell grid.
C10_ClueNumbers ==
    gaLast.op = "build" =>
        LET numbers == {gaGrid.slots[i].number : i \in GaSlotIds}
        IN  /\ \A i \in GaSlotIds : gaGrid.slots[i].number >= 1
            /\ numbers = 1..Cardinality(numbers)
            /\ \A i, j \in GaSlotIds :
                  /\ (gaGrid.slots[i].number = gaGrid.slots[j].number)
                        <=> (SlotStart(gaGrid.slots[i]) = SlotStart(gaGrid.slots[j]))
                  /\ (gaGrid.slots[i].number < gaGrid.slots[j].number)
                        <=> (ReadingIndex(gaGrid.slots[i].startRow, gaGrid.slots[i].startCol)
                               < ReadingIndex(gaGrid.slots[j].startRow, gaGrid.slots[j].startCol))
            /\ \A i \in GaSlotIds :
                  gaGrid.cells[SlotStart(gaGrid.slots[i])].number = gaGrid.slots[i].number

\* C10 witness: an across and a down slot share a start cell and its number,
\* and a later start cell carries a number of at least 3.
C10_Witness ==
    /\ gaLast.op = "build"
    /\ \E i, j \in GaSlotIds :
          /\ i # j
          /\ gaGrid.slots[i].number = gaGrid.slots[j].number
    /\ \E i \in GaSlotIds : gaGrid.slots[i].number >= 3

\* the triples (o, i, j), indices from 0, of the slots o of the other
\* direction that share the cell s.cells[i] = o.cells[j] with slot s
ExpectedCrossings(s) ==
    {[slot |-> gaGrid.slots[x[1]].id, targetIndex |-> x[2], intersectIndex |-> x[3]] :
        x \in {y \in GaSlotIds \X Coords \X Coords :
                  /\ gaGrid.slots[y[1]].direction # s.direction
                  /\ y[2] < Len(s.cells)
                  /\ y[3] < Len(gaGrid.slots[y[1]].cells)
                  /\ s.cells[y[2] + 1] = gaGrid.slots[y[1]].cells[y[3] + 1]}}

\* C11: getIntersectingSlots(s, slots) returns exactly the triples (o, i, j)
\* with o of the opposite direction and s.cells[i] = o.cells[j], each crossing
\* slot in at most one triple, and (o, i, j) is an intersection of s iff
\* (s, j, i) is an intersection of o.
C11_IntersectionsExact ==
    gaLast.op = "intersections" =>
        LET s == gaGrid.slots[gaLast.slot]
            r == gaLast.result
        IN  /\ Range(r) = ExpectedCrossings(s)
            /\ \A a, b \in 1..Len(r) : r[a].slot = r[b].slot => a = b
            /\ \A k \in GaSlotIds :
                  \A back \in {Range(getIntersectingSlots(gaGrid.slots[k], gaGrid.slots))} :
                      \A i, j \in Coords :
                          [slot |-> gaGrid.slots[k].id, targetIndex |-> i,
                           intersectIndex |-> j] \in Range(r)
                          <=> [slot |-> s.id, targetIndex |-> j,
                               intersectIndex |-> i] \in back

\* C11 witness: a slot crossed by several slots, one of them at cells of
\* different indices in the two slots.
C11_Witness ==
    /\ gaLast.op = "intersections"
    /\ Len(gaLast.result) >= 2
    /\ \E k \in 1..Len(gaLast.result) :
          gaLast.result[k].targetIndex # gaLast.result[k].intersectIndex

\* C12: isValidPlacement(word, slot, grid) is true iff the word has the
\* slot's length and every cell the slot shares with a crossing slot is empty
\* or holds the word's letter for that cell; on an empty grid every word of
\* the slot's length is valid.
C12_ValidPlacement ==
    gaLast.op = "valid" =>
        LET s == gaGrid.slots[gaLast.slot]
            word == gaLast.result.word
        IN  /\ gaLast.result.valid <=>
                  /\ Len(word) = s.length
                  /\ \A j \in GaSlotIds, a \in 1..Len(s.cells) :
                        (/\ gaGrid.slots[j].direction # s.direction
                         /\ CoversCell(gaGrid.slots[j], s.cells[a]))
                        => gaGrid.cells[s.cells[a]].letter \in {NoLetter, word[a]}
            /\ (/\ Len(word) = s.length
                /\ \A cell \in Cells : gaGrid.cells[cell].letter = NoLetter)
               => gaLast.result.valid

\* C12 witness: a word of the slot's length is refused because a crossing
\* slot holds another letter in the shared cell.
C12_Witness ==
    /\ gaLast.op = "valid"
    /\ ~gaLast.result.valid
    /\ Len(gaLast.result.word) = gaGrid.slots[gaLast.slot].length
    /\ \E j \in GaSlotIds : j # gaLast.slot /\ gaPlaced[j] # <<>>

\* C13: placeWord with word.length # slot.length throws and leaves every
\* cell letter and every slot pattern as they were; with equal lengths it
\* writes word[i] into slot.cells[i] and changes no letter outside the slot.
C13_PlaceWordContract ==
    [][gaLast'.op = "place" =>
          LET slot == gaGrid.slots[gaLast'.slot]
              word == gaLast'.result
          IN  IF gaLast'.length # slot.length
              THEN /\ gaLast'.outcome = "throw"
                   /\ \A cell \in Cells :
                         gaGrid'.cells[cell].letter = gaGrid.cells[cell].letter
                   /\ \A i \in GaSlotIds :
                         gaGrid'.slots[i].pattern = gaGrid.slots[i].pattern
              ELSE /\ gaLast'.outcome = "ok"
                   /\ Len(word) = slot.length
                   /\ \A k \in 1..Len(word) :
                         gaGrid'.cells[slot.cells[k]].letter = word[k]
                   /\ \A cell \in Cells :
                         ~CoversCell(slot, cell)
                         => gaGrid'.cells[cell].letter = gaGrid.cells[cell].letter]_vars

\* C13 witness: placeWord has thrown on a grid that holds letters.
C13_Witness ==
    /\ gaLast.op = "place"
    /\ gaLast.outcome = "throw"
    /\ \E cell \in Cells : gaGrid.cells[cell].letter # NoLetter

\* C18: buildPuzzleResult fails on a grid in which some slot pattern still
\* holds a wildcard; a puzzle it emits has no wildcard in an answer and no
\* empty cell in a slot.
C18_PuzzleIsComplete ==
    gaLast.op = "puzzle" =>
        /\ (\E i \in GaSlotIds : Wild \in Range(gaGrid.slots[i].pattern))
           => gaLast.outcome = "throw"
        /\ gaLast.outcome = "ok" =>
              /\ \A k \in 1..Len(gaLast.result.across) :
                    Wild \notin Range(gaLast.result.across[k].answer)
              /\ \A k \in 1..Len(gaLast.result.down) :
                    Wild \notin Range(gaLast.result.down[k].answer)
              /\ \A i \in GaSlotIds :
                    \A k \in 1..Len(gaGrid.slots[i].cells) :
                        gaLast.result.grid[gaGrid.slots[i].cells[k]] # NoLetter

----------------------------------------------------------------------------
(* CrosswordGenerator (part_003): slots and their order *)

maxBacktracks == 50         \* CrosswordGenerator.maxBacktracks
maxCandidates == 50         \* the cap handed to diversifyWordSelection
lastNPuzzles == 10          \* the window handed to filterRecentWords
candidateLimit == 100       \* candidates.slice(0, 100)
maxHistorySize == 100       \* WordHistoryManager.maxHistorySize
maxAge == 24 * 60 * 60 * 1000

\* Array.prototype.slice(0, end)
slice(s, end) ==
    IF end >= 0 THEN SubSeq(s, 1, IF end < Len(s) THEN end ELSE Len(s))
    ELSE SubSeq(s, 1, IF Len(s) + end > 0 THEN Len(s) + end ELSE 0)

\* the cells of the white run that starts at (row, col) and advances by (dr, dc)
RECURSIVE RunFrom(_, _, _, _, _)
RunFrom(grid, row, col, dr, dc) ==
    IF row < 5 /\ col < 5 /\ grid[<<row, col>>] = White
    THEN << <<row, col>> >> \o RunFrom(grid, row + dr, col + dc, dr, dc)
    ELSE <<>>

\* (faulty variant) the cell left of the start is not looked at
StartsAcrossAnywhere(grid, row, col) == TRUE

StartsAcross(grid, row, col) == col = 0 \/ grid[<<row, col - 1>>] = Black

StartsDown(grid, row, col) == row = 0 \/ grid[<<row - 1, col>>] = Black

\* extractSlots, first pass: needsNumber
NeedsNumber(grid, row, col) ==
    /\ grid[<<row, col>>] = White
    /\ \/ StartsAcross(grid, row, col) /\ Len(RunFrom(grid, row, col, 0, 1)) >= 3
       \/ StartsDown(grid, row, col) /\ Len(RunFrom(grid, row, col, 1, 0)) >= 3

\* extractSlots, first pass from the cell of reading-order index k on
RECURSIVE NumberedPositions(_, _, _)
NumberedPositions(grid, k, clueNumber) ==
    IF k >= 5 * 5 THEN <<>>
    ELSE IF NeedsNumber(grid, CellAt(k)[1], CellAt(k)[2])
    THEN (CellAt(k) :> clueNumber) @@ NumberedPositions(grid, k + 1, clueNumber + 1)
    ELSE NumberedPositions(grid, k + 1, clueNumber)

GenSlotOf(number, direction, cells) ==
    [id |-> <<number, IF direction = "across" THEN "A" ELSE "D">>,
     direction |-> direction,
     startRow |-> cells[1][1], startCol |-> cells[1][2],
     length |-> Len(cells), cells |-> cells, number |-> number,
     pattern |-> AllWild(Len(cells)), candidates |-> <<>>]

\* extractSlots, second pass from the cell of reading-order index k on
RECURSIVE SlotsFrom(_, _, _)
SlotsFrom(grid, numbered, k) ==
    IF k >= 5 * 5 THEN <<>>
    ELSE LET row == CellAt(k)[1]
             col == CellAt(k)[2]
             number == IF CellAt(k) \in DOMAIN numbered THEN numbered[CellAt(k)] ELSE 0
             across == RunFrom(grid, row, col, 0, 1)
             down == RunFrom(grid, row, col, 1, 0)
             here == number # 0 /\ grid[<<row, col>>] = White
         IN  (IF here /\ StartsAcross(grid, row, col) /\ Len(across) >= 3
              THEN <<GenSlotOf(number, "across", across)>> ELSE <<>>)
             \o (IF here /\ StartsDown(grid, row, col) /\ Len(down) >= 3
                 THEN <<GenSlotOf(number, "down", down)>> ELSE <<>>)
             \o SlotsFrom(grid, numbered, k + 1)

extractSlots(t) == SlotsFrom(t.grid, NumberedPositions(t.grid, 0, 1), 0)

initializeGrid(t) ==
    [cell \in Cells |-> [type |-> t.grid[cell], letter |-> NoLetter,
                         number |-> NoNumber]]

\* sortSlotsByConstraints, lines 491-501: the slots from the k-th on with
\* their candidates, and the pattern cache after the queries
RECURSIVE WithCandidates(_, _, _)
WithCandidates(slots, k, cache) ==
    IF k > Len(slots) THEN [slots |-> <<>>, cache |-> cache]
    ELSE LET found == findWordsMatching(cache, slots[k].length, slots[k].pattern)
             rest == WithCandidates(slots, k + 1,
                         CacheAfter(cache, slots[k].length, slots[k].pattern))
         IN  [slots |-> <<[slots[k] EXCEPT !.candidates = slice(found, candidateLimit)]>>
                        \o rest.slots,
              cache |-> rest.cache]

\* sortSlotsByConstraints, lines 504-508: the comparison function
SlotOrderSign(a, b) ==
    IF Len(a.candidates) # Len(b.candidates)
    THEN Len(a.candidates) - Len(b.candidates)
    ELSE b.length - a.length

InsertSlot(e, s) ==
    SelectSeq(s, LAMBDA x : SlotOrderSign(x, e) <= 0)
    \o <<e>>
    \o SelectSeq(s, LAMBDA x : SlotOrderSign(x, e) > 0)

\* sortSlotsByConstraints, lines 504-508: the stable sort by that comparison
\* function, which is consistent
RECURSIVE SortSlots(_)
SortSlots(s) ==
    IF s = <<>> THEN <<>>
    ELSE InsertSlot(s[Len(s)], SortSlots(SubSeq(s, 1, Len(s) - 1)))

----------------------------------------------------------------------------
(* WordHistoryManager (word-history.ts) *)

\* (a, b) => b.timestamp - a.timestamp
NewestFirstSign(a, b) == b.timestamp - a.timestamp

InsertNewestFirst(e, s) ==
    SelectSeq(s, LAMBDA x : NewestFirstSign(x, e) <= 0)
    \o <<e>>
    \o SelectSeq(s, LAMBDA x : NewestFirstSign(x, e) > 0)

\* this.history.sort(...), in place and stable
RECURSIVE sortNewestFirst(_)
sortNewestFirst(h) ==
    IF h = <<>> THEN <<>>
    ELSE InsertNewestFirst(h[Len(h)], sortNewestFirst(SubSeq(h, 1, Len(h) - 1)))

\* [...new Set(ids)]: the first occurrences, in order
RECURSIVE Unique(_)
Unique(ids) ==
    IF ids = <<>> THEN <<>>
    ELSE LET front == Unique(SubSeq(ids, 1, Len(ids) - 1))
         IN  IF \E k \in 1..Len(front) : front[k] = ids[Len(ids)] THEN front
             ELSE Append(front, ids[Len(ids)])

\* getRecentWords(n)
getRecentWords(h, n) ==
    UNION {UNION {{sorted[k].word :
                     k \in {j \in 1..Len(sorted) :
                              \E l \in 1..Len(recentPuzzleIds) :
                                  recentPuzzleIds[l] = sorted[j].puzzleId}} :
                  recentPuzzleIds \in
                      {slice(Unique([k \in 1..Len(sorted) |-> sorted[k].puzzleId]), n)}} :
           sorted \in {sortNewestFirst(h)}}

\* filterRecentWords(candidates, n)
filterRecentWords(candidates, h, n) ==
    SelectSeq(candidates, LAMBDA c : toLowerCase(c.word) \notin getRecentWords(h, n))

\* cleanup() at time now
cleanup(h, now) ==
    LET kept == SelectSeq(h, LAMBDA e : e.timestamp > now - maxAge)
    IN  IF Len(kept) > maxHistorySize
        THEN slice(sortNewestFirst(kept), maxHistorySize)
        ELSE kept

\* addPuzzleWords(words, puzzleId) at time now
addPuzzleWords(h, words, puzzleId, now) ==
    cleanup(h \o [k \in 1..Len(words) |->
                    [word |-> toLowerCase(words[k]), timestamp |-> now,
                     puzzleId |-> puzzleId]],
            now)

----------------------------------------------------------------------------
(* CrosswordGenerator (part_003): the grid and the assignment map *)

\* a Map as the sequence of its entries [id, word], in insertion order
MapHas(map, id) == \E k \in 1..Len(map) : map[k].id = id

MapSet(map, id, word) ==
    IF MapHas(map, id)
    THEN [k \in 1..Len(map) |-> IF map[k].id = id THEN [id |-> id, word |-> word]
                                 ELSE map[k]]
    ELSE Append(map, [id |-> id, word |-> word])

\* (faulty variant) the entry stays in the map
MapDeleteNothing(map, id) == map

\* assignments.delete(id)
MapDelete(map, id) == SelectSeq(map, LAMBDA e : e.id # id)

\* Array.from(map.values())
MapValues(map) == [k \in 1..Len(map) |-> map[k].word]

\* getSlotPattern(grid, slot)
getSlotPattern(grid, slot) ==
    [k \in 1..Len(slot.cells) |-> LetterOrWild(grid[slot.cells[k]].letter)]

\* (faulty variant) a used word is tried again
NeverUsed(map, word) == FALSE

\* backtrackFill, line 567
AlreadyUsed(map, word) == \E k \in 1..Len(map) : MapValues(map)[k] = word

\* isValidPlacement(grid, slot, word, assignments)
genIsValidPlacement(grid, slot, word) ==
    \A i \in 1..Len(slot.cells) :
        /\ grid[slot.cells[i]].letter # NoLetter
             => ToLowerChar(grid[slot.cells[i]].letter) = ToLowerChar(word[i])
        /\ slot.cells[i] \in Cells
        /\ grid[slot.cells[i]].type # Black

\* placeWord(grid, slot, word)
genPlaceWord(grid, slot, word) ==
    [cell \in Cells |->
        IF CoversCell(slot, cell)
        THEN LET index == CHOOSE k \in 1..Len(slot.cells) : slot.cells[k] = cell
             IN  [grid[cell] EXCEPT
                     !.letter = ToLowerChar(word[index]),
                     !.number = IF index = 1 THEN slot.number ELSE @]
        ELSE grid[cell]]

\* removeWord, lines 708-713
IsPartOfOtherWord(slot, map, allSlots, cell) ==
    \E j \in 1..Len(allSlots) :
        /\ allSlots[j].id # slot.id
        /\ MapHas(map, allSlots[j].id)
        /\ CoversCell(allSlots[j], cell)

\* removeWord, lines 722-726
OtherWordStartsHere(slot, map, allSlots, cell) ==
    \E j \in 1..Len(allSlots) :
        /\ allSlots[j].id # slot.id
        /\ MapHas(map, allSlots[j].id)
        /\ StartsAt(allSlots[j], cell)

\* (faulty variant) every letter of the slot is removed
genRemoveWordClearAll(grid, slot, map, allSlots) ==
    [cell \in Cells |->
        IF CoversCell(slot, cell)
        THEN [grid[cell] EXCEPT
                 !.letter = NoLetter,
                 !.number = IF cell = slot.cells[1]
                               /\ ~OtherWordStartsHere(slot, map, allSlots, cell)
                            THEN NoNumber ELSE @]
        ELSE grid[cell]]

\* (faulty variant) the number of the start cell is left in place
genRemoveWordKeepNumber(grid, slot, map, allSlots) ==
    [cell \in Cells |->
        IF CoversCell(slot, cell)
        THEN [grid[cell] EXCEPT
                 !.letter = IF ~IsPartOfOtherWord(slot, map, allSlots, cell)
                            THEN NoLetter ELSE @]
        ELSE grid[cell]]

\* removeWord(grid, slot, assignments, allSlots)
genRemoveWord(grid, slot, map, allSlots) ==
    [cell \in Cells |->
        IF CoversCell(slot, cell)
        THEN [grid[cell] EXCEPT
                 !.letter = IF ~IsPartOfOtherWord(slot, map, allSlots, cell)
                            THEN NoLetter ELSE @,
                 !.number = IF cell = slot.cells[1]
                               /\ ~OtherWordStartsHere(slot, map, allSlots, cell)
                            THEN NoNumber ELSE @]
        ELSE grid[cell]]

\* diversifyWordSelection(candidates, cap) returns
\* shuffle(pool).slice(0, cap); these are the possible pools.  A shuffle
\* (Fisher-Yates) can produce every order of its argument.
DiversifyPools(candidates, cap) ==
    IF Len(candidates) <= cap THEN {candidates}
    ELSE LET top == (Len(candidates) * 3) \div 10    \* Math.floor(length * 0.3)
         IN  UNION {{SubSeq(sortedByFreq, 1, top) \o slice(shuffled, cap - top) :
                        shuffled \in SeqPermutations(
                            SubSeq(sortedByFreq, top + 1, Len(sortedByFreq)))} :
                    sortedByFreq \in SortOutcomes(candidates)}

\* shuffleArray(array): Fisher-Yates with Math.random, any order
shuffleArray(array) == SeqPermutations(array)

\* top-then-remainder without the last shuffle (for comparison with Combine)
CombineInOrder(topTier, randomTier) == {topTier \o randomTier}

\* diversifyWordSelection, line 631: this.shuffleArray([...topTier, ...randomTier])
Combine(topTier, randomTier) == shuffleArray(topTier \o randomTier)

\* diversifyWordSelection(candidates, cap): the lists it can return, each
\* with the top tier it was made from (empty when the list is only shuffled)
diversifyWordSelection(candidates, cap) ==
    IF Len(candidates) <= cap
    THEN {[list |-> l, top |-> {}] : l \in shuffleArray(candidates)}
    ELSE LET top == (Len(candidates) * 3) \div 10    \* Math.floor(length * 0.3)
         IN  UNION {UNION {UNION {
                 {[list |-> slice(final, cap), top |-> Range(topTier)] :
                     final \in Combine(topTier, randomTier)} :
                   randomTier \in
                       {slice(shuffled, cap - Len(topTier)) :
                           shuffled \in shuffleArray(
                               SubSeq(sortedByFreq, top + 1, Len(sortedByFreq)))}} :
                 topTier \in shuffleArray(SubSeq(sortedByFreq, 1, top))} :
               sortedByFreq \in SortOutcomes(candidates)}

----------------------------------------------------------------------------
(* CrosswordGenerator (part_003): generateCrossword and backtrackFill *)

\* four slots of length 3 in a ring: rows 0 and 2 across, columns 0 and 2 down
RingMask ==
    MaskOfRows(<< <<".", ".", ".", "#", "#">>,
                  <<".", "#", ".", "#", "#">>,
                  <<".", ".", ".", "#", "#">>,
                  <<"#", "#", "#", "#", "#">>,
                  <<"#", "#", "#", "#", "#">> >>)

GenTemplates ==
    {[id |-> "diag", grid |-> DiagnosticMask],
     [id |-> "arch", grid |-> ArchMask],
     [id |-> "hook", grid |-> HookMask],
     [id |-> "ring", grid |-> RingMask]}

HistoryEntry(word, timestamp, puzzleId) ==
    [word |-> word, timestamp |-> timestamp, puzzleId |-> puzzleId]

\* the histories left by earlier puzzles, in the order of their pushes
Histories ==
    {<<>>,
     <<HistoryEntry(<<"a","a","b">>, 1, "p1"), HistoryEntry(<<"a","b","a">>, 1, "p1")>>,
     <<HistoryEntry(<<"a","a","b">>, 1, "p1"), HistoryEntry(<<"a","b","a">>, 1, "p1"),
       HistoryEntry(<<"a","b","b">>, 2, "p2"), HistoryEntry(<<"a","b","a","b">>, 2, "p2")>>}

\* Date.now() when the puzzle is recorded: soon, or a day after the history
Times == {3, maxAge + 2}

\* a backtrackFill call: its arguments, where it stands ("enter": before its
\* first statement, "loop": in the for loop, "await": in the call on
\* slotIndex + 1, "tail": in the call on slotIndex - 1), and the part of
\* diversifiedCandidates the loop has not reached: `left` elements of a
\* shuffle of `pool`, each of them any element of pool not drawn before.
\* `before` keeps, while the call on slotIndex + 1 runs, the grid and the map
\* as they were when the loop reached placeWord (line 572)
NoSnapshot == [grid |-> <<>>, map |-> <<>>]

Frame(slotIndex, backtrackCount) ==
    [slotIndex |-> slotIndex, backtrackCount |-> backtrackCount, pc |-> "enter",
     pool |-> <<>>, left |-> 0, before |-> NoSnapshot]

Top == stack[Len(stack)]

Pop == SubSeq(stack, 1, Len(stack) - 1)

Null == [kind |-> "null"]

RemoveAt(s, k) == SubSeq(s, 1, k - 1) \o SubSeq(s, k + 1, Len(s))

\* the step just taken; a removal (lines 591-593) adds one to the count
Step(step, slotIndex) ==
    [step |-> step, slotIndex |-> slotIndex,
     removals |-> genLast.removals + (IF step = "removed" THEN 1 ELSE 0)]

\* (faulty variant) the base case is taken one slot early
AllButOneFilled(slotIndex, slots) == slotIndex >= Len(slots) - 1

\* backtrackFill, line 524: the base case
AllSlotsFilled(slotIndex, slots) == slotIndex >= Len(slots)

\* (faulty variant) the filtered list is used even when it is empty
BaseCandidatesFreshOnly(freshCandidates, allCandidates) == freshCandidates

\* backtrackFill, line 557: baseCandidates
BaseCandidates(freshCandidates, allCandidates) ==
    IF Len(freshCandidates) > 0 THEN freshCandidates ELSE allCandidates

\* (faulty variant) the loop gives up after its first candidate
LoopLengthOne(pool) == IF Len(pool) > 0 THEN 1 ELSE 0

\* backtrackFill, lines 560-563: the candidates the loop goes through,
\* shuffle(...).slice(0, maxCandidates)
LoopLength(pool) == Len(slice(pool, maxCandidates))

\* (faulty variant) the re-entrant call works on the exhausted slot again
ReentrySameSlot(slotIndex) == slotIndex

\* backtrackFill, lines 602-608: the slot the re-entrant call works on
ReentrySlot(slotIndex) == slotIndex - 1

GenInit ==
    /\ GaIdle
    /\ DrvIdle
    /\ file \in Files
    /\ query = [length |-> 3, pattern |-> AllWild(3)]
    /\ initialized = FALSE
    /\ wordsByLength = EmptyLists
    /\ positionIndex = <<>>
    /\ patternCache = <<>>
    /\ wbResult = NoResult
    /\ template \in GenTemplates
    /\ genPc = "start"
    /\ genSlots = <<>>
    /\ sortedSlots = <<>>
    /\ genGrid = <<>>
    /\ assignments = <<>>
    /\ stack = <<>>
    /\ returned = NoReturn
    /\ generated = NoReturn
    /\ genLast = [step |-> "none", slotIndex |-> 0, removals |-> 0]
    /\ history \in Histories

\* generateCrossword, line 317: await this.wordBank.initialize()
GenInitialize ==
    /\ genPc = "start"
    /\ \E r \in initializeOutcomes :
          /\ wordsByLength' = r.wordsByLength
          /\ positionIndex' = r.positionIndex
          /\ initialized' = r.initialized
          /\ genPc' = IF r.threw THEN "done" ELSE "ready"
          /\ generated' = IF r.threw THEN [kind |-> "error"] ELSE generated
    /\ UNCHANGED <<file, query, patternCache, wbResult, gaVars, drvVars, template, genSlots,
                   sortedSlots, genGrid, assignments, stack, returned, genLast,
                   history>>

\* generateCrossword, lines 320-329, up to the call of backtrackFill
GenPrepare ==
    /\ genPc = "ready"
    /\ \E numberedPositions \in {NumberedPositions(template.grid, 0, 1)} :
       \E slots \in {SlotsFrom(template.grid, numberedPositions, 0)} :
       \E slotsWithCandidates \in {WithCandidates(slots, 1, patternCache)} :
          /\ genSlots' = slots
          /\ sortedSlots' = SortSlots(slotsWithCandidates.slots)
          /\ patternCache' = slotsWithCandidates.cache
    /\ genGrid' = initializeGrid(template)
    /\ assignments' = <<>>
    /\ stack' = <<Frame(0, 0)>>
    /\ genPc' = "fill"
    /\ UNCHANGED <<file, query, initialized, wordsByLength, positionIndex, wbResult,
                   gaVars, drvVars, template, returned, generated, genLast, history>>

\* what the word bank, the GridAnalyzer and the inputs keep during the search
GenFrame == UNCHANGED <<file, query, initialized, wordsByLength, positionIndex,
                        wbResult, gaVars, drvVars, template, genPc, genSlots, sortedSlots,
                        generated>>

\* backtrackFill, lines 523-560: from the entry of the call to the loop
BacktrackEnter ==
    /\ genPc = "fill" /\ stack # <<>> /\ returned = NoReturn
    /\ Top.pc = "enter"
    /\ IF AllSlotsFilled(Top.slotIndex, sortedSlots)
       THEN /\ returned' = [kind |-> "solution", filledGrid |-> genGrid,
                            wordPlacements |-> assignments]
            /\ stack' = Pop
            /\ genLast' = Step("solved", Top.slotIndex)
            /\ UNCHANGED <<patternCache, history>>
       ELSE IF Top.backtrackCount > maxBacktracks
               \/ Top.slotIndex < 0
               \/ Len(sortedSlots[Top.slotIndex + 1].cells) = 0
       THEN /\ returned' = Null
            /\ stack' = Pop
            /\ genLast' = Step("refused", Top.slotIndex)
            /\ UNCHANGED <<patternCache, history>>
       ELSE \E currentSlot \in {sortedSlots[Top.slotIndex + 1]} :
            \E currentPattern \in {getSlotPattern(genGrid, currentSlot)} :
            \E allCandidates \in
                 {findWordsMatching(patternCache, currentSlot.length, currentPattern)} :
            \E freshCandidates \in
                 {filterRecentWords(allCandidates, history, lastNPuzzles)} :
            \E baseCandidates \in
                 {BaseCandidates(freshCandidates, allCandidates)} :
                /\ \E pool \in DiversifyPools(baseCandidates, maxCandidates) :
                      stack' = [stack EXCEPT ![Len(stack)] =
                                  [@ EXCEPT !.pc = "loop", !.pool = pool,
                                            !.left = LoopLength(pool)]]
                /\ patternCache' =
                      CacheAfter(patternCache, currentSlot.length, currentPattern)
                /\ history' = sortNewestFirst(history)
                /\ genLast' = Step("enter", Top.slotIndex)
                /\ UNCHANGED returned
    /\ UNCHANGED <<genGrid, assignments>>
    /\ GenFrame

\* backtrackFill, lines 563-585: one iteration of the loop, up to the call on
\* slotIndex + 1 when the candidate is placed
BacktrackTry ==
    /\ genPc = "fill" /\ stack # <<>> /\ returned = NoReturn
    /\ Top.pc = "loop" /\ Top.left > 0
    /\ \E k \in 1..Len(Top.pool) :
          LET currentSlot == sortedSlots[Top.slotIndex + 1]
              word == toLowerCase(Top.pool[k].word)
              next == [Top EXCEPT !.pool = RemoveAt(Top.pool, k), !.left = @ - 1]
          IN  IF AlreadyUsed(assignments, word)
              THEN /\ stack' = [stack EXCEPT ![Len(stack)] = next]
                   /\ genLast' = Step("used", Top.slotIndex)
                   /\ UNCHANGED <<genGrid, assignments>>
              ELSE IF genIsValidPlacement(genGrid, currentSlot, word)
              THEN /\ genGrid' = genPlaceWord(genGrid, currentSlot, word)
                   /\ assignments' = MapSet(assignments, currentSlot.id, word)
                   /\ stack' = Append([stack EXCEPT ![Len(stack)] =
                                         [next EXCEPT
                                             !.pc = "await",
                                             !.before = [grid |-> genGrid,
                                                         map |-> assignments]]],
                                      Frame(Top.slotIndex + 1, Top.backtrackCount))
                   /\ genLast' = Step("placed", Top.slotIndex)
              ELSE /\ stack' = [stack EXCEPT ![Len(stack)] = next]
                   /\ genLast' = Step("invalid", Top.slotIndex)
                   /\ UNCHANGED <<genGrid, assignments>>
    /\ UNCHANGED <<patternCache, history, returned>>
    /\ GenFrame

\* backtrackFill, lines 587-594: the call on slotIndex + 1 has returned
BacktrackAfterCall ==
    /\ genPc = "fill" /\ stack # <<>> /\ returned # NoReturn
    /\ Top.pc = "await"
    /\ IF returned.kind = "solution"
       THEN /\ stack' = Pop
            /\ genLast' = Step("return", Top.slotIndex)
            /\ UNCHANGED <<genGrid, assignments, returned>>
       ELSE LET currentSlot == sortedSlots[Top.slotIndex + 1]
            IN  /\ genGrid' = genRemoveWord(genGrid, currentSlot, assignments,
                                            sortedSlots)
                /\ assignments' = MapDelete(assignments, currentSlot.id)
                /\ stack' = [stack EXCEPT ![Len(stack)] =
                              [@ EXCEPT !.pc = "loop", !.before = NoSnapshot]]
                /\ returned' = NoReturn
                /\ genLast' = Step("removed", Top.slotIndex)
    /\ UNCHANGED <<patternCache, history>>
    /\ GenFrame

\* backtrackFill, lines 597-608: the loop is over
BacktrackExhausted ==
    /\ genPc = "fill" /\ stack # <<>> /\ returned = NoReturn
    /\ Top.pc = "loop" /\ Top.left = 0
    /\ IF Top.slotIndex = 0
       THEN /\ returned' = Null
            /\ stack' = Pop
            /\ genLast' = Step("failed", Top.slotIndex)
       ELSE /\ stack' = Append([stack EXCEPT ![Len(stack)] = [@ EXCEPT !.pc = "tail"]],
                               Frame(ReentrySlot(Top.slotIndex),
                                     Top.backtrackCount + 1))
            /\ genLast' = Step("reenter", Top.slotIndex)
            /\ UNCHANGED returned
    /\ UNCHANGED <<genGrid, assignments, patternCache, history>>
    /\ GenFrame

\* backtrackFill, line 602: the call on slotIndex - 1 has returned
BacktrackAfterReentry ==
    /\ genPc = "fill" /\ stack # <<>> /\ returned # NoReturn
    /\ Top.pc = "tail"
    /\ stack' = Pop
    /\ genLast' = Step("return", Top.slotIndex)
    /\ UNCHANGED <<genGrid, assignments, patternCache, history, returned>>
    /\ GenFrame

\* generateCrossword, lines 331-372, without the clues: the outermost
\* backtrackFill has returned
GenFinish ==
    /\ genPc = "fill" /\ stack = <<>> /\ returned # NoReturn
    /\ IF returned.kind = "null"
       THEN /\ generated' = [kind |-> "error"]
            /\ UNCHANGED history
       ELSE \E now \in Times :
            /\ generated' = [kind |-> "puzzle", grid |-> returned.filledGrid,
                             slots |-> genSlots, words |-> returned.wordPlacements,
                             templateId |-> template.id]
            /\ history' = addPuzzleWords(history, MapValues(returned.wordPlacements),
                                         <<template.id, now>>, now)
    /\ genPc' = "done"
    /\ UNCHANGED <<file, query, initialized, wordsByLength, positionIndex,
                   patternCache, wbResult, gaVars, drvVars, template, genSlots, sortedSlots,
                   genGrid, assignments, stack, returned, genLast>>

GenNext ==
    \/ GenInitialize
    \/ GenPrepare
    \/ BacktrackEnter
    \/ BacktrackTry
    \/ BacktrackAfterCall
    \/ BacktrackExhausted
    \/ BacktrackAfterReentry
    \/ GenFinish

\* one call of generateCrossword on a fresh word bank
SpecGen == GenInit /\ [][GenNext]_vars

\* the runtime resumes every pending continuation
SpecGenFair == GenInit /\ [][GenNext]_vars /\ WF_vars(GenNext)

\* removeWord of either implementation, from any state either reaches
SpecRemove == (GridInit \/ GenInit) /\ [][GridNext \/ GenNext]_vars

----------------------------------------------------------------------------
(* CrosswordGenerator: properties *)

\* the entries of a map for one slot id
EntriesOf(map, id) == {k \in 1..Len(map) : map[k].id = id}

PairwiseDistinct(words) ==
    \A i, j \in 1..Len(words) : i # j => words[i] # words[j]

\* C1: when generateCrossword returns a puzzle, every slot extracted from the
\* mask has exactly one entry in wordPlacements, the entry is a dictionary
\* word of the slot's length, and the cells of the returned grid along the
\* slot spell that word (so crossing slots agree on their shared cell).
C1_ReturnedPuzzleFilled ==
    generated.kind = "puzzle" =>
        /\ generated.slots = extractSlots(template)
        /\ \A i \in 1..Len(generated.slots) :
              LET slot == generated.slots[i]
              IN  /\ Cardinality(EntriesOf(generated.words, slot.id)) = 1
                  /\ \A k \in EntriesOf(generated.words, slot.id) :
                        /\ Len(generated.words[k].word) = slot.length
                        /\ \E e \in Range(DictionaryEntries) :
                              e.word = generated.words[k].word
                        /\ \A l \in 1..slot.length :
                              generated.grid[slot.cells[l]].letter
                                  = generated.words[k].word[l]

\* C1 witness: a returned puzzle of three slots, the across one crossed at
\* both ends.
C1_Witness ==
    /\ generated.kind = "puzzle"
    /\ Len(generated.slots) = 3
    /\ Len(generated.words) = 3

\* C2: during the search the values of the assignment map are pairwise
\* distinct, and no word is assigned to two slots of a returned puzzle.
C2_NoRepeatedWord ==
    /\ PairwiseDistinct(MapValues(assignments))
    /\ returned.kind = "solution" => PairwiseDistinct(MapValues(returned.wordPlacements))
    /\ generated.kind = "puzzle" => PairwiseDistinct(MapValues(generated.words))

\* C2 witness: the loop of a slot that holds no word has just skipped a
\* candidate that another slot holds.
C2_Witness ==
    /\ genPc = "fill" /\ stack # <<>>
    /\ genLast.step = "used"
    /\ Top.pc = "loop"
    /\ ~MapHas(assignments, sortedSlots[Top.slotIndex + 1].id)
    /\ Len(assignments) >= 1

\* the calls of backtrackFill in progress never outnumber the forward calls
\* (one per slot and the base case) plus one re-entrant call per slot
DepthBounded == Len(stack) <= 2 * Len(sortedSlots) + 1

GenDone == genPc = "done" /\ generated.kind \in {"puzzle", "error"}

\* C3: a call of generateCrossword terminates with a puzzle or a failure; the
\* recursion of backtrackFill, the re-entrant call on slotIndex - 1 included,
\* stays bounded.
C3_Terminates == []DepthBounded /\ <>GenDone

\* C3 witness: two re-entrant calls are in progress, slot 2 and then slot 1
\* having run out of candidates.
C3_Witness ==
    /\ genPc = "fill"
    /\ Cardinality({k \in 1..Len(stack) : stack[k].pc = "tail"}) >= 2
    /\ Top.pc = "loop" /\ Top.slotIndex = 0

\* C8 (generator): the removal made after a failed call on slotIndex + 1
\* leaves, in every cell the removed slot shares with another slot of the
\* assignment map, the letter of that slot's word.
GenRemovePreservesShared ==
    (genPc = "fill" /\ stack # <<>> /\ returned = Null /\ returned' = NoReturn) =>
        \A k \in 1..Len(assignments), j \in 1..Len(sortedSlots) :
            (sortedSlots[j].id = assignments[k].id
             /\ sortedSlots[j].id # sortedSlots[Top.slotIndex + 1].id) =>
                \A l \in 1..Len(sortedSlots[j].cells) :
                    CoversCell(sortedSlots[Top.slotIndex + 1], sortedSlots[j].cells[l])
                        => genGrid'[sortedSlots[j].cells[l]].letter
                               = assignments[k].word[l]

\* C8: removing the word of slot A never erases the letter of a cell that a
\* placed crossing word B covers, for GridAnalyzer.removeWord and for the
\* generator's removeWord.
C8_SharedCellPreserved ==
    [][GaRemovePreservesShared /\ GenRemovePreservesShared]_vars

\* the removal of lines 591-593 gives back the grid (letters and numbers) and
\* the map that the loop had when it reached placeWord
RemovalRestores ==
    (genPc = "fill" /\ stack # <<>> /\ returned = Null /\ returned' = NoReturn) =>
        /\ genGrid' = Top.before.grid
        /\ assignments' = Top.before.map

\* the outermost backtrackFill has returned null
FinalFailure == genPc = "fill" /\ stack = <<>> /\ returned = Null

FinalFailureClean ==
    FinalFailure =>
        /\ \A cell \in Cells : genGrid[cell].letter = NoLetter
        /\ assignments = <<>>

\* C28: in backtrackFill, removeWord followed by assignments.delete after a
\* failed recursive call restores the cell letters, the cell numbers and the
\* assignment map to their values immediately before the placement; when
\* backtrackFill finally returns failure the grid holds no letter and the
\* assignment map is as at entry (empty).
C28_UndoRestores == []FinalFailureClean /\ [][RemovalRestores]_vars

\* C28 witness: a word that shares its first cell with the word of another
\* slot of the map has just been removed after a failed call, a cell number
\* and a letter of the other slot staying in place.
C28_Witness ==
    /\ genPc = "fill" /\ stack # <<>>
    /\ genLast.step = "removed"
    /\ Len(assignments) >= 1
    /\ \E j \in 1..Len(sortedSlots) :
          /\ MapHas(assignments, sortedSlots[j].id)
          /\ sortedSlots[j].id # sortedSlots[Top.slotIndex + 1].id
          /\ StartsAt(sortedSlots[j], sortedSlots[Top.slotIndex + 1].cells[1])
          /\ genGrid[sortedSlots[Top.slotIndex + 1].cells[1]].number # NoNumber

\* C28 witness of the final failure: the search gave up after it had placed
\* and removed words.
C28_FailureWitness == FinalFailure /\ genLast.removals >= 2

\* the words of the map that lie on a cell, each with its letter there
LettersOn(map, slots, cell) ==
    {map[k].word[l] :
        <<k, l>> \in {<<k, l>> \in (1..Len(map)) \X (1..size) :
                         \E j \in 1..Len(slots) :
                            /\ slots[j].id = map[k].id
                            /\ l <= Len(slots[j].cells)
                            /\ slots[j].cells[l] = cell}}

GridAgreesWithMap ==
    genPc = "fill" =>
        \A cell \in Cells :
            /\ genGrid[cell].letter # NoLetter
                 <=> LettersOn(assignments, sortedSlots, cell) # {}
            /\ \A letter \in LettersOn(assignments, sortedSlots, cell) :
                  genGrid[cell].letter = letter

\* a step of the search leaves every letter it finds or clears it
NoLetterOverwritten ==
    (genPc = "fill" /\ genPc' = "fill") =>
        \A cell \in Cells :
            genGrid[cell].letter # NoLetter =>
                genGrid'[cell].letter \in {genGrid[cell].letter, NoLetter}

\* C29: at every point during backtrackFill a cell holds a letter iff it lies
\* on some slot that is in the assignment map, and its letter is then the
\* corresponding letter of that slot's word; no placement overwrites a letter
\* with a different letter.
C29_GridMatchesAssignments == []GridAgreesWithMap /\ [][NoLetterOverwritten]_vars

\* C29 witness: a word has just been placed across a cell that already held
\* the letter of a crossing word of the map, and two words of the map now
\* agree on that cell.
C29_Witness ==
    /\ genPc = "fill"
    /\ genLast.step = "placed"
    /\ \E cell \in Cells :
          Cardinality({k \in 1..Len(assignments) :
                         \E j \in 1..Len(sortedSlots) :
                            /\ sortedSlots[j].id = assignments[k].id
                            /\ CoversCell(sortedSlots[j], cell)}) = 2

\* a template whose search is long: 1-Across (3 letters), 2-Across (5) and
\* 4-Across (4) do not meet; 3-Down (3) starts on the last cell of 2-Across
\* and ends on the last cell of 4-Across
BudgetMask ==
    MaskOfRows(<< <<".", ".", ".", "#", "#">>,
                  <<"#", "#", "#", "#", "#">>,
                  <<".", ".", ".", ".", ".">>,
                  <<"#", "#", "#", "#", ".">>,
                  <<"#", ".", ".", ".", ".">> >>)

\* a dictionary for it: every 3-letter word ends in a, every 4-letter word in b
BudgetLines ==
    << << <<"a","a","a">>, "1" >>,
       << <<"a","b","a">>, "1" >>,
       << <<"b","a","a">>, "1" >>,
       << <<"b","b","a">>, "1" >>,
       << <<"a","a","a","a","a">>, "1" >>,
       << <<"a","b","a","b","a">>, "1" >>,
       << <<"b","a","a","b","a">>, "1" >>,
       << <<"b","b","b","b","a">>, "1" >>,
       << <<"a","a","a","a","b">>, "1" >>,
       << <<"a","b","b","a","b">>, "1" >>,
       << <<"b","a","a","b","b">>, "1" >>,
       << <<"b","b","b","b","b">>, "1" >>,
       << <<"a","a","a","b">>, "1" >>,
       << <<"a","b","a","b">>, "1" >>,
       << <<"b","a","a","b">>, "1" >>,
       << <<"b","b","a","b">>, "1" >>,
       << <<"a","a","b","b">>, "1" >>,
       << <<"a","b","b","b">>, "1" >>,
       << <<"b","a","b","b">>, "1" >>,
       << <<"b","b","b","b">>, "1" >> >>

BudgetInit ==
    /\ GaIdle
    /\ DrvIdle
    /\ file = [exists |-> TRUE, lines |-> BudgetLines]
    /\ query = [length |-> 3, pattern |-> AllWild(3)]
    /\ initialized = FALSE
    /\ wordsByLength = EmptyLists
    /\ positionIndex = <<>>
    /\ patternCache = <<>>
    /\ wbResult = NoResult
    /\ template = [id |-> "budget", grid |-> BudgetMask]
    /\ genPc = "start"
    /\ genSlots = <<>>
    /\ sortedSlots = <<>>
    /\ genGrid = <<>>
    /\ assignments = <<>>
    /\ stack = <<>>
    /\ returned = NoReturn
    /\ generated = NoReturn
    /\ genLast = [step |-> "none", slotIndex |-> 0, removals |-> 0]
    /\ history = <<>>

\* one call of generateCrossword on that template and dictionary
SpecBudget == BudgetInit /\ [][GenNext]_vars

\* C30: within one generateCrossword attempt the number of backtracks made by
\* backtrackFill (placed words removed again) never exceeds maxBacktracks
\* (50): once the backtrack budget is exceeded the attempt ends with failure.
C30_BacktracksWithinBudget == genLast.removals <= maxBacktracks

\* the words of the loaded dictionary
BankWords == {toLowerCase(e.word) : e \in Range(DictionaryEntries)}

\* the mask admits an assignment of pairwise-distinct dictionary words to all
\* its slots that agrees at every crossing
Fillable(slots, words) ==
    \E f \in [1..Len(slots) -> words] :
        /\ \A i \in 1..Len(slots) : Len(f[i]) = Len(slots[i].cells)
        /\ \A i, j \in 1..Len(slots) : i # j => f[i] # f[j]
        /\ \A i, j \in 1..Len(slots) :
              \A k \in 1..Len(slots[i].cells), l \in 1..Len(slots[j].cells) :
                  slots[i].cells[k] = slots[j].cells[l] => f[i][k] = f[j][l]

SearchStarted == genPc = "fill" /\ stack # <<>>

\* C31: with an empty word history (and a dictionary of at most 50 words per
\* length) backtrackFill returns a solution whenever the mask admits an
\* assignment of pairwise-distinct dictionary words to all slots that agrees
\* at every crossing, whatever order the shuffles produce.
C31_SearchComplete ==
    (SearchStarted /\ history = <<>> /\ Fillable(sortedSlots, BankWords))
        ~> (returned.kind = "solution")

\* C31 witness: with an empty history the search has returned a solution
\* after it had to take a placed word back.
C31_Witness ==
    /\ genPc = "fill" /\ stack = <<>>
    /\ history = <<>>
    /\ returned.kind = "solution"
    /\ genLast.removals >= 1
    /\ Fillable(sortedSlots, BankWords)

\* a call of backtrackFill has just reached its loop
EnteredLoop ==
    /\ genPc = "fill" /\ stack # <<>>
    /\ genLast.step = "enter"
    /\ Top.pc = "loop"

\* the words of the dictionary that match the pattern the current slot has
MatchingNow ==
    findWordsMatching(patternCache, sortedSlots[Top.slotIndex + 1].length,
                      getSlotPattern(genGrid, sortedSlots[Top.slotIndex + 1]))

\* C32: in backtrackFill, when filtering out the recently used words leaves
\* no candidate for the current slot, the unfiltered candidate set is used
\* instead: an empty filtered set alone never makes the slot fail.
C32_EmptyFilterFallsBack ==
    (EnteredLoop /\ filterRecentWords(MatchingNow, history, lastNPuzzles) = <<>>) =>
        /\ Top.pool = MatchingNow
        /\ Top.left = Len(MatchingNow)

\* C32 witness: the loop starts on two candidates, both of them words of the
\* recent puzzles.
C32_Witness ==
    /\ EnteredLoop
    /\ filterRecentWords(MatchingNow, history, lastNPuzzles) = <<>>
    /\ Len(MatchingNow) >= 2
    /\ Top.left >= 2

\* the entries of a candidate list whose word no slot of the grid holds
Unused(candidates) ==
    {k \in 1..Len(candidates) :
        ~AlreadyUsed(assignments, toLowerCase(candidates[k].word))}

\* C33: the word-history filter is only a soft preference: if some dictionary
\* word matches the current slot's pattern and is not already used in this
\* grid, the loop of backtrackFill has at least one such word to try for that
\* slot, whatever the history contains.
C33_HistoryIsSoft ==
    (EnteredLoop /\ Unused(MatchingNow) # {}) =>
        (Top.left = Len(Top.pool) /\ Unused(Top.pool) # {})

\* the candidate lists handed to diversifyWordSelection: lists the word
\* bank returns, by falling frequency
DivPool ==
    << [word |-> <<"a","a","b">>, frequency |-> Num(3)],
       [word |-> <<"a","b","b">>, frequency |-> Num(3)],
       [word |-> <<"a","b","a">>, frequency |-> Num(2)],
       [word |-> <<"b","a","b">>, frequency |-> Num(2)],
       [word |-> <<"b","b","b">>, frequency |-> Num(1)] >>

RECURSIVE SubSeqs(_)
SubSeqs(s) ==
    IF s = <<>> THEN {<<>>}
    ELSE LET rest == SubSeqs(Tail(s))
         IN  rest \cup {<<Head(s)>> \o r : r \in rest}

\* the caps: small ones, which these lists exceed, and the one backtrackFill
\* passes
DivCaps == {1, 2, 3, maxCandidates}

DivInit ==
    /\ GaIdle
    /\ DrvIdle
    /\ file = [exists |-> FALSE, lines |-> <<>>]
    /\ query = [length |-> 3, pattern |-> AllWild(3)]
    /\ initialized = FALSE
    /\ wordsByLength = EmptyLists
    /\ positionIndex = <<>>
    /\ patternCache = <<>>
    /\ wbResult = NoResult
    /\ template = [id |-> "none", grid |-> MaskOf({})]
    /\ genPc = "idle"
    /\ genSlots = <<>>
    /\ sortedSlots = <<>>
    /\ genGrid = <<>>
    /\ assignments = <<>>
    /\ stack = <<>>
    /\ \E candidates \in SubSeqs(DivPool), cap \in DivCaps :
          returned = [kind |-> "arguments", candidates |-> candidates,
                      maxCandidates |-> cap, list |-> <<>>, top |-> {}]
    /\ generated = NoReturn
    /\ genLast = [step |-> "none", slotIndex |-> 0, removals |-> 0]
    /\ history = <<>>

\* a call of diversifyWordSelection
Diversify ==
    /\ returned.kind = "arguments"
    /\ \E r \in diversifyWordSelection(returned.candidates, returned.maxCandidates) :
          returned' = [returned EXCEPT !.kind = "diversified",
                                       !.list = r.list, !.top = r.top]
    /\ UNCHANGED <<wbVars, gaVars, drvVars, template, genPc, genSlots, sortedSlots,
                   genGrid, assignments, stack, generated, genLast, history>>

DivNext == Diversify

SpecDiversify == DivInit /\ [][DivNext]_vars

\* C34: the list returned by diversifyWordSelection is capped at
\* maxCandidates entries, contains only entries of its input without
\* duplicates, and places every entry taken from the high-frequency top
\* partition before every entry taken from the remainder.
C34_DiversifiedList ==
    returned.kind = "diversified" =>
        /\ Len(returned.list) <= returned.maxCandidates
        /\ Range(returned.list) \subseteq Range(returned.candidates)
        /\ \A i, j \in 1..Len(returned.list) :
              i # j => returned.list[i] # returned.list[j]
        /\ \A i, j \in 1..Len(returned.list) :
              (returned.list[i] \in returned.top /\ returned.list[j] \notin returned.top)
                  => i < j

\* a call of backtrackFill is about to work on a slot
SlotChosen ==
    /\ genPc = "fill" /\ stack # <<>>
    /\ Top.pc = "enter"
    /\ Top.slotIndex >= 0 /\ Top.slotIndex < Len(sortedSlots)

\* the number of dictionary words that match the pattern a slot has now
MatchCount(slot) ==
    Len(findWordsMatching(patternCache, slot.length, getSlotPattern(genGrid, slot)))

NotFilled(slot) == ~MapHas(assignments, slot.id)

ChosenIsUnfilled == SlotChosen => NotFilled(sortedSlots[Top.slotIndex + 1])

ChosenIsMostConstrained ==
    SlotChosen =>
        \A j \in 1..Len(sortedSlots) :
            NotFilled(sortedSlots[j]) =>
                MatchCount(sortedSlots[Top.slotIndex + 1]) <= MatchCount(sortedSlots[j])

\* C35: at every step of backtrackFill the slot chosen to be filled next is
\* an unfilled slot that has the fewest dictionary words matching its current
\* pattern among all slots still unfilled at that step.
C35_MostConstrainedNext == ChosenIsUnfilled /\ ChosenIsMostConstrained

\* C36: in the puzzle returned by generateCrossword each slot's pattern field
\* equals the letters in that slot's cells, i.e. the word placed in the slot,
\* and contains no wildcard.
C36_ReturnedPatternsFilled ==
    generated.kind = "puzzle" =>
        \A i \in 1..Len(generated.slots) :
            /\ generated.slots[i].pattern
                   = [k \in 1..Len(generated.slots[i].cells) |->
                         generated.grid[generated.slots[i].cells[k]].letter]
            /\ \A k \in 1..Len(generated.slots[i].pattern) :
                  generated.slots[i].pattern[k] # Wild

\* every entry of a per-length list has that length and is in the leaf of
\* each of its letter positions
ListedIsIndexed ==
    \A L \in Lengths :
        \A e \in Range(wordsByLength[L]) :
            /\ Len(e.word) = L
            /\ \A i \in 1..L :
                  /\ <<L, e.word[i], i>> \in DOMAIN positionIndex
                  /\ e \in Range(positionIndex[<<L, e.word[i], i>>])

\* every entry of a leaf <<length, letter, position>> has that length and
\* that letter at that position, and is in the list of its length
IndexedIsListed ==
    \A key \in DOMAIN positionIndex :
        \A e \in Range(positionIndex[key]) :
            /\ Len(e.word) = key[1]
            /\ e.word[key[3]] = key[2]
            /\ e \in Range(wordsByLength[key[1]])

IndexConsistent == initialized => (ListedIsIndexed /\ IndexedIsListed)

LoadedDataFrozen ==
    initialized => (wordsByLength' = wordsByLength /\ positionIndex' = positionIndex)

\* C37: after initialize, for each length L an entry e is in wordsByLength[L]
\* iff, for every position i < L, e is in positionIndex[L][e.word[i]][i]; no
\* index leaf holds an entry of another length or an entry whose letter at
\* that position differs, and neither structure changes after load.
C37_IndexMatchesLists == []IndexConsistent /\ [][LoadedDataFrozen]_vars

\* C37 witness: a query has been answered on a loaded bank that holds words
\* of two lengths, two of them in one leaf.
C37_Witness ==
    /\ initialized
    /\ wbResult.call = "find" /\ wbResult.outcome = "ok"
    /\ Cardinality({L \in Lengths : wordsByLength[L] # <<>>}) >= 2
    /\ \E key \in DOMAIN positionIndex : Len(positionIndex[key]) >= 2

\* what the two slot records have in common
NumberedShape(slot) ==
    [direction |-> slot.direction, startRow |-> slot.startRow,
     startCol |-> slot.startCol, length |-> slot.length, cells |-> slot.cells,
     number |-> slot.number]

\* C38: for every 5x5 mask, CrosswordGenerator.extractSlots and
\* GridAnalyzer.buildGrid yield the same set of slots (direction, start cell,
\* length, ordered cell list) with the same clue number for each slot.
C38_SameSlots ==
    gaLast.op = "build" =>
        {NumberedShape(slot) : slot \in Range(gaGrid.slots)}
            = {NumberedShape(slot) :
                  slot \in Range(extractSlots([id |-> "mask", grid |-> gaMask]))}

\* C38 witness: a grid is built whose slots have three lengths, two of them
\* share a start cell and its number, and a run of two white cells is no slot.
C38_Witness ==
    /\ gaLast.op = "build"
    /\ Len(extractSlots([id |-> "mask", grid |-> gaMask])) >= 6
    /\ \A n \in 3..5 : \E i \in GaSlotIds : gaGrid.slots[i].length = n
    /\ \E i, j \in GaSlotIds :
          i # j /\ gaGrid.slots[i].number = gaGrid.slots[j].number
    /\ \E cell \in Cells : MaximalRun(gaMask, cell[1], cell[2], 1, 0, 2)

\* placeWord(w, s) has just run on a grid that held no letter outside s
OnlyWordPlaced ==
    /\ gaLast.op = "place" /\ gaLast.outcome = "ok"
    /\ \A cell \in Cells :
          gaGrid.cells[cell].letter # NoLetter
              => CoversCell(gaGrid.slots[gaLast.slot], cell)

GridEmpty(grid) ==
    /\ \A cell \in Cells : grid.cells[cell].letter = NoLetter
    /\ \A j \in 1..Len(grid.slots) :
          grid.slots[j].pattern = AllWild(grid.slots[j].length)

PlaceThenRemoveClears ==
    (OnlyWordPlaced /\ gaLast'.op = "remove" /\ gaLast'.slot = gaLast.slot)
        => GridEmpty(gaGrid')

\* C39: on a grid built by buildGrid in which no word is placed,
\* GridAnalyzer.placeWord(w, s) followed by GridAnalyzer.removeWord(s) leaves
\* every cell without a letter and every slot pattern all-wildcard again,
\* including the cells that s shares with crossing slots that hold no word.
C39_PlaceRemoveRoundTrip == [][PlaceThenRemoveClears]_vars

\* C16: when backtrackFill finds no solution, generateCrossword hands its
\* caller a failure result; it does not throw (kind "error" is a thrown Error).
C16_FailureIsResult ==
    (genPc = "done" /\ returned.kind = "null") => generated.kind # "error"

----------------------------------------------------------------------------
(* CrosswordGenerator (part_003, generate): template selection, fillGrid *)

\* the % of JavaScript: the result has the sign of the dividend
JsRem(a, n) == IF a >= 0 THEN a % n ELSE 0 - ((0 - a) % n)

\* getTemplateById: null is NoTemplate
getTemplateById(id) ==
    LET hits == SelectSeq(CROSSWORD_TEMPLATES, LAMBDA t : t.id = id)
    IN  IF hits = <<>> THEN NoTemplate ELSE hits[1]

\* getRandomTemplate(seed): the templates it can return; an index outside
\* the array yields undefined, Math.random() any template
getRandomTemplate(seed) ==
    IF seed.given
    THEN LET index == JsRem(seed.n, Len(CROSSWORD_TEMPLATES))
         IN  {IF index >= 0 THEN CROSSWORD_TEMPLATES[index + 1] ELSE NoTemplate}
    ELSE Range(CROSSWORD_TEMPLATES)

\* generate, lines 803-805: the templates attempt number k can select
SelectTemplate(opts, k) ==
    IF opts.templateId # "" THEN {getTemplateById(opts.templateId)}
    ELSE getRandomTemplate(IF opts.seed.given /\ opts.seed.n # 0
                           THEN Seed(opts.seed.n + k) ELSE NoSeed)

\* updateAllCandidates from slot k on: the candidates of the slots so far,
\* and the pattern cache after the queries
RECURSIVE UpdateCandidatesFrom(_, _, _, _)
UpdateCandidatesFrom(grid, candidates, cache, k) ==
    IF k > Len(grid.slots) THEN [candidates |-> candidates, cache |-> cache]
    ELSE IF Wild \in Range(grid.slots[k].pattern)
    THEN LET slot == grid.slots[k]
             found == findWordsMatching(cache, slot.length, slot.pattern)
             words == [j \in 1..Len(found) |-> found[j].word]
         IN  UpdateCandidatesFrom(grid,
                 Append(candidates,
                        SelectSeq(words, LAMBDA w : isValidPlacement(w, slot, grid))),
                 CacheAfter(cache, slot.length, slot.pattern), k + 1)
    ELSE UpdateCandidatesFrom(grid, Append(candidates, <<>>), cache, k + 1)

updateAllCandidates(grid, cache) == UpdateCandidatesFrom(grid, <<>>, cache, 1)

\* (faulty variant) ties on the candidate count are left to the slot order
BetterSlotNoTieBreak(candidateCount, minCandidates, intersectionCount, maxIntersections) ==
    candidateCount < minCandidates

\* selectSlotMRV, lines 936-937
BetterSlot(candidateCount, minCandidates, intersectionCount, maxIntersections) ==
    \/ candidateCount < minCandidates
    \/ (candidateCount = minCandidates /\ intersectionCount > maxIntersections)

\* selectSlotMRV from slot k on; bestSlot = 0 is null, and minCandidates is
\* then Infinity
RECURSIVE SelectFrom(_, _, _, _, _)
SelectFrom(grid, k, bestSlot, minCandidates, maxIntersections) ==
    IF k > Len(grid.slots) THEN bestSlot
    ELSE IF Wild \notin Range(grid.slots[k].pattern)
    THEN SelectFrom(grid, k + 1, bestSlot, minCandidates, maxIntersections)
    ELSE IF Len(grid.candidates[k]) = 0 THEN k
    ELSE LET candidateCount == Len(grid.candidates[k])
             intersectionCount ==
                 Len(getIntersectingSlots(grid.slots[k], grid.slots))
         IN  IF \/ bestSlot = 0
                \/ BetterSlot(candidateCount, minCandidates,
                              intersectionCount, maxIntersections)
             THEN SelectFrom(grid, k + 1, k, candidateCount, intersectionCount)
             ELSE SelectFrom(grid, k + 1, bestSlot, minCandidates, maxIntersections)

selectSlotMRV(grid) == SelectFrom(grid, 1, 0, 0, -1)

\* fillGrid, lines 867-873: entry?.frequency || 0
FrequencyOrZero(word, length) ==
    LET hits == SelectSeq(wordsByLength[length], LAMBDA e : e.word = word)
    IN  IF hits = <<>> \/ hits[1].frequency.nan THEN 0 ELSE hits[1].frequency.n

\* candidates.sort(...): stable, higher frequency first
RECURSIVE SortCandidates(_, _)
SortCandidates(words, length) ==
    IF words = <<>> THEN <<>>
    ELSE LET e == words[Len(words)]
             sorted == SortCandidates(SubSeq(words, 1, Len(words) - 1), length)
         IN  SelectSeq(sorted, LAMBDA x : FrequencyOrZero(x, length)
                                             >= FrequencyOrZero(e, length))
             \o <<e>>
             \o SelectSeq(sorted, LAMBDA x : FrequencyOrZero(x, length)
                                                < FrequencyOrZero(e, length))

\* saveSlotPatterns: the patterns by slot
saveSlotPatterns(grid) == [k \in 1..Len(grid.slots) |-> grid.slots[k].pattern]

\* restoreSlotPatterns from slot k on
RECURSIVE RestoreFrom(_, _, _)
RestoreFrom(grid, savedPatterns, k) ==
    IF k > Len(grid.slots) THEN grid
    ELSE LET slot == grid.slots[k]
             letterAt(cell) ==
                 LET i == CHOOSE j \in 1..Len(slot.cells) : slot.cells[j] = cell
                 IN  IF savedPatterns[k][i] = Wild THEN NoLetter
                     ELSE savedPatterns[k][i]
         IN  RestoreFrom(
                 [grid EXCEPT
                     !.slots[k].pattern = savedPatterns[k],
                     !.cells = [cell \in Cells |->
                                   IF CoversCell(slot, cell)
                                   THEN [grid.cells[cell] EXCEPT !.letter = letterAt(cell)]
                                   ELSE grid.cells[cell]]],
                 savedPatterns, k + 1)

restoreSlotPatterns(grid, savedPatterns) == RestoreFrom(grid, savedPatterns, 1)

\* what a call of fillGrid leaves: its return value (or that it threw), the
\* grid, usedWords, the pattern cache, and whether the 250 ms of the attempt
\* have run out
FillOutcome(success, threw, grid, used, cache, expired) ==
    [success |-> success, threw |-> threw, grid |-> grid, usedWords |-> used,
     cache |-> cache, expired |-> expired]

\* (faulty variant) the loop runs while attempts <= maxAttempts
LoopContinuesInclusive(n, limit) == n <= limit

\* generate, line 785: while (attempts < this.maxAttempts)
LoopContinues(n, limit) == n < limit

\* (faulty variant) a slot without candidates is reported as success
DeadEndValueTrue == TRUE

\* fillGrid, line 852: return false
DeadEndValue == FALSE

\* (faulty variant) the undo leaves the word marked used
UnmarkNothing(used, word) == used

\* fillGrid, line 906: this.usedWords.delete(word)
Unmark(used, word) == used \ {word}

RECURSIVE fillGrid(_, _, _, _)
RECURSIVE TryCandidates(_, _, _, _, _, _, _)

\* fillGrid, lines 875-909: the loop from candidate k on
TryCandidates(grid, used, cache, expired, target, candidates, k) ==
    IF k > Len(candidates) THEN {FillOutcome(FALSE, FALSE, grid, used, cache, expired)}
    ELSE {FillOutcome(FALSE, FALSE, grid, used, cache, TRUE)}
         \cup
         (IF expired THEN {}
          ELSE IF \/ candidates[k] \in used
                  \/ ~isValidPlacement(candidates[k], grid.slots[target], grid)
          THEN TryCandidates(grid, used, cache, expired, target, candidates, k + 1)
          ELSE UNION {
                 IF r.success \/ r.threw THEN {r}
                 ELSE TryCandidates(
                          removeWord(target,
                              restoreSlotPatterns(r.grid, saveSlotPatterns(grid))),
                          Unmark(r.usedWords, candidates[k]), r.cache, r.expired,
                          target, candidates, k + 1) :
                 r \in fillGrid(placeWord(candidates[k], target, grid),
                                used \cup {candidates[k]}, cache, expired)})

\* fillGrid(grid, startTime): findWordsMatching throws on a word bank that
\* is not initialized
fillGrid(grid, used, cache, expired) ==
    IF ~initialized THEN {FillOutcome(FALSE, TRUE, grid, used, cache, expired)}
    ELSE UNION {
           UNION {
             IF \E k \in 1..Len(g.slots) : g.candidates[k] = <<>>
             THEN {FillOutcome(DeadEndValue, FALSE, g, used, u.cache, expired)}
             ELSE UNION {
                    IF targetSlot = 0
                    THEN {FillOutcome(TRUE, FALSE, g, used, u.cache, expired)}
                    ELSE TryCandidates(g, used, u.cache, expired, targetSlot,
                             SortCandidates(g.candidates[targetSlot],
                                            g.slots[targetSlot].length), 1) :
                    targetSlot \in {selectSlotMRV(g)}} :
             g \in {[cells |-> grid.cells, slots |-> grid.slots,
                     candidates |-> u.candidates]}} :
           u \in {updateAllCandidates(grid, cache)}}

----------------------------------------------------------------------------
(* CrosswordGenerator (part_003, generate): the driver *)

\* the dictionary files generate is run on: missing, empty, three words of
\* length 3, one word of each length
DrvFiles ==
    {[exists |-> FALSE, lines |-> <<>>],
     [exists |-> TRUE, lines |-> <<>>],
     [exists |-> TRUE, lines |-> <<DictPool[1], DictPool[2], DictPool[3]>>],
     [exists |-> TRUE, lines |-> <<DictPool[1], DictPool[5], DictPool[6]>>]}

\* the options: maxAttempts is a count, templateId "" is undefined
DrvOptions ==
    [seed : {NoSeed, Seed(-3), Seed(0), Seed(1), Seed(6)},
     templateId : {"", "t2", "zz"},
     maxAttempts : 0..MaxAttemptsBound]

\* `Template ${templateId} not found`
TemplateNotFound(templateId) ==
    CASE templateId = "" -> "Template undefined not found"
      [] templateId = "zz" -> "Template zz not found"
      [] OTHER -> "Template t2 not found"

\* the failure results of generate; duration is performance.now() - startTime
FailureResult(error, n) ==
    [kind |-> "result", success |-> FALSE, error |-> error, attempts |-> n,
     duration |-> "elapsed"]

DriverInit ==
    /\ GaIdle
    /\ GenIdle
    /\ file \in DrvFiles
    /\ query = [length |-> 3, pattern |-> AllWild(3)]
    /\ initialized = FALSE
    /\ wordsByLength = EmptyLists
    /\ positionIndex = <<>>
    /\ patternCache = <<>>
    /\ wbResult = NoResult
    /\ options \in DrvOptions
    /\ attempts = 0
    /\ lastError = ""
    /\ usedWords = {}
    /\ selected = NoTemplate
    /\ drvPc = "start"
    /\ drvResult = NoReturn
    /\ maxAttempts = defaultMaxAttempts
    /\ calls = <<>>
    /\ runQueue = <<>>

\* generate, lines 773-783: this.maxAttempts = maxAttempts and
\* await this.wordBank.initialize()
DrvInitialize ==
    /\ drvPc = "start"
    /\ \E r \in initializeOutcomes :
          /\ wordsByLength' = r.wordsByLength
          /\ positionIndex' = r.positionIndex
          /\ initialized' = r.initialized
          /\ drvPc' = IF r.threw THEN "done" ELSE "loop"
          /\ drvResult' = IF r.threw THEN [kind |-> "throw"] ELSE drvResult
    /\ maxAttempts' = options.maxAttempts
    /\ UNCHANGED <<file, query, patternCache, wbResult, options, attempts,
                   lastError, usedWords, selected, calls, runQueue>>

\* generate, lines 785-799 and 834-839: the loop test, the timeout check
\* (the clock is the environment's), attempts++ and usedWords.clear()
DrvLoop ==
    /\ drvPc = "loop"
    /\ IF LoopContinues(attempts, maxAttempts)
       THEN \/ /\ drvResult' = FailureResult("Generation timeout exceeded", attempts)
               /\ drvPc' = "done"
               /\ UNCHANGED <<attempts, usedWords>>
            \/ /\ attempts' = attempts + 1
               /\ usedWords' = {}
               /\ drvPc' = "attempt"
               /\ UNCHANGED drvResult
       ELSE /\ drvResult' = FailureResult(IF lastError # "" THEN lastError
                                          ELSE "Max attempts exceeded", attempts)
            /\ drvPc' = "done"
            /\ UNCHANGED <<attempts, usedWords>>
    /\ UNCHANGED <<wbVars, options, lastError, selected, maxAttempts, calls, runQueue>>

\* generate, lines 801-831: the body of one attempt, inside try / catch
DrvAttempt ==
    /\ drvPc = "attempt"
    /\ \E t \in SelectTemplate(options, attempts) :
          /\ selected' = t
          /\ IF t = NoTemplate
             THEN /\ lastError' = TemplateNotFound(options.templateId)
                  /\ drvPc' = "loop"
                  /\ UNCHANGED <<patternCache, usedWords, drvResult>>
             ELSE \E r \in fillGrid(buildGrid(t.grid), usedWords, patternCache, FALSE) :
                  /\ patternCache' = r.cache
                  /\ usedWords' = r.usedWords
                  /\ lastError' = IF r.threw
                                  THEN "WordBank not initialized. Call initialize() first."
                                  ELSE lastError
                  /\ drvPc' = IF r.success THEN "done" ELSE "loop"
                  /\ drvResult' =
                        IF r.success
                        THEN [kind |-> "result", success |-> TRUE,
                              puzzle |-> buildPuzzleResult(r.grid, t.id, options.seed),
                              attempts |-> attempts, duration |-> "elapsed"]
                        ELSE drvResult
    /\ UNCHANGED <<file, query, initialized, wordsByLength, positionIndex, wbResult,
                   options, attempts, maxAttempts, calls, runQueue>>

DriverNext ==
    \/ DrvInitialize /\ UNCHANGED <<gaVars, genVars>>
    \/ DrvLoop /\ UNCHANGED <<gaVars, genVars>>
    \/ DrvAttempt /\ UNCHANGED <<gaVars, genVars>>

\* one call of generate on a fresh word bank
SpecDriver == DriverInit /\ [][DriverNext]_vars

----------------------------------------------------------------------------
(* generate: properties *)

\* C17: generate makes at most maxAttempts attempts and no result reports
\* more; when no attempt succeeds it returns one result with success = false,
\* the number of attempts made and the elapsed time; nothing raised inside
\* an attempt leaves generate (past initialize, generate always returns).
C17_AttemptsBounded ==
    /\ attempts <= options.maxAttempts
    /\ drvResult.kind = "result" =>
          /\ drvResult.attempts <= options.maxAttempts
          /\ drvResult.attempts = attempts
          /\ drvResult.duration = "elapsed"
          /\ drvPc = "done"
    /\ (drvPc = "done" /\ initialized) => drvResult.kind = "result"
    /\ drvResult.kind = "throw" => attempts = 0

\* C17 witness: every attempt of a budget of at least two was made on a
\* template and failed, and generate returned the aggregate failure.
C17_Witness ==
    /\ drvPc = "done"
    /\ drvResult.kind = "result"
    /\ ~drvResult.success
    /\ drvResult.attempts = options.maxAttempts
    /\ options.maxAttempts >= 2
    /\ drvResult.error = "Max attempts exceeded"
    /\ selected # NoTemplate

\* C19: with no templateId and a seed, the mask of attempt k is a function
\* of (seed, k) and a member of the catalog.
C19_SeededMaskDeterministic ==
    (options.templateId = "" /\ options.seed.given) =>
        /\ \A k \in 1..attempts : Cardinality(SelectTemplate(options, k)) = 1
        /\ (drvPc \in {"loop", "done"} /\ attempts >= 1)
           => selected \in Range(CROSSWORD_TEMPLATES)

\* C20: with a templateId that is not in the catalog, generate reports the
\* failure after the first lookup: it makes no second attempt.
C20_UnknownTemplateFailsAtOnce ==
    (options.templateId # "" /\ getTemplateById(options.templateId) = NoTemplate) =>
        /\ attempts <= 1
        /\ drvResult.kind = "result" => drvResult.attempts <= 1

----------------------------------------------------------------------------
(* DiagnosticGeneratorFixed (diagnostic-generator-fixed.ts, lines 14-351) *)

maxAcrossTries == 10    \* fillGridDiagnostic: Math.min(10, acrossCandidates.length)

\* grid.slots.find(s => s.direction === direction): its index, 0 when absent
FindSlot(grid, direction) ==
    LET hits == {k \in 1..Len(grid.slots) : grid.slots[k].direction = direction}
    IN  IF hits = {} THEN 0 ELSE CHOOSE k \in hits : \A j \in hits : k <= j

DiagOutcome(success, grid, cache) == [success |-> success, grid |-> grid, cache |-> cache]

\* fillGridDiagnostic, lines 155-195: the loop from across candidate i on
RECURSIVE TryAcross(_, _, _, _, _, _)
TryAcross(grid, cache, acrossCandidates, i, acrossSlot, downSlot) ==
    IF i > Len(acrossCandidates) \/ i > maxAcrossTries
    THEN DiagOutcome(FALSE, grid, cache)
    ELSE LET acrossWord == acrossCandidates[i].word
             placed == placeWord(acrossWord, acrossSlot, grid)
             downPattern == toLowerCase(placed.slots[downSlot].pattern)
             downLength == placed.slots[downSlot].length
             downCandidates == findWordsMatching(cache, downLength, downPattern)
             after == CacheAfter(cache, downLength, downPattern)
         IN  IF /\ Len(downCandidates) > 0
                /\ isValidPlacement(downCandidates[1].word, placed.slots[downSlot], placed)
             THEN DiagOutcome(TRUE, placeWord(downCandidates[1].word, downSlot, placed),
                              after)
             ELSE TryAcross(removeWord(acrossSlot, placed), after, acrossCandidates,
                            i + 1, acrossSlot, downSlot)

\* fillGridDiagnostic(grid) on an initialized word bank
fillGridDiagnostic(grid, cache) ==
    LET acrossSlot == FindSlot(grid, "across")
        downSlot == FindSlot(grid, "down")
    IN  IF acrossSlot = 0 \/ downSlot = 0 THEN DiagOutcome(FALSE, grid, cache)
        ELSE LET acrossLength == grid.slots[acrossSlot].length
                 acrossPattern == toLowerCase(grid.slots[acrossSlot].pattern)
             IN  TryAcross(grid, CacheAfter(cache, acrossLength, acrossPattern),
                           findWordsMatching(cache, acrossLength, acrossPattern),
                           1, acrossSlot, downSlot)

\* buildPuzzleResult(grid, templateId) of DiagnosticGeneratorFixed
DiagPuzzleResult(grid, templateId) ==
    [grid |-> [cell \in Cells |->
                  IF grid.cells[cell].type = Black THEN Black
                  ELSE grid.cells[cell].letter],
     across |-> PuzzleEntries(grid.slots, "across"),
     down |-> PuzzleEntries(grid.slots, "down"),
     meta |-> [templateId |-> templateId]]

DiagInit ==
    /\ GaIdle
    /\ GenIdle
    /\ file \in Files
    /\ query = [length |-> 3, pattern |-> AllWild(3)]
    /\ initialized = FALSE
    /\ wordsByLength = EmptyLists
    /\ positionIndex = <<>>
    /\ patternCache = <<>>
    /\ wbResult = NoResult
    /\ options = [seed |-> NoSeed, templateId |-> "", maxAttempts |-> 0]
    /\ attempts = 0
    /\ lastError = ""
    /\ usedWords = {}
    /\ selected = NoTemplate
    /\ drvPc = "start"
    /\ drvResult = NoReturn
    /\ maxAttempts = defaultMaxAttempts
    /\ calls = <<>>
    /\ runQueue = <<>>

\* generateDiagnostic, lines 21-27: await this.wordBank.initialize(), outside
\* the try block
DiagInitialize ==
    /\ drvPc = "start"
    /\ \E r \in initializeOutcomes :
          /\ wordsByLength' = r.wordsByLength
          /\ positionIndex' = r.positionIndex
          /\ initialized' = r.initialized
          /\ drvPc' = IF r.threw THEN "done" ELSE "fill"
          /\ drvResult' = IF r.threw THEN [kind |-> "throw"] ELSE drvResult
    /\ UNCHANGED <<file, query, patternCache, wbResult, options, attempts,
                   lastError, usedWords, selected, maxAttempts, calls, runQueue>>

\* generateDiagnostic, lines 29-126: build the grid of the two-slot template,
\* fill it, return the result
DiagFill ==
    /\ drvPc = "fill"
    /\ \E grid \in {buildGrid(DiagnosticMask)} :
          IF Len(grid.slots) # 2
          THEN /\ drvResult' = [kind |-> "result", success |-> FALSE,
                                error |-> "Expected 2 slots", attempts |-> 1,
                                duration |-> "elapsed"]
               /\ UNCHANGED <<patternCache, usedWords>>
          ELSE \E r \in {fillGridDiagnostic(grid, patternCache)} :
                  /\ usedWords' = {}
                  /\ patternCache' = r.cache
                  /\ drvResult' =
                        IF r.success
                        THEN [kind |-> "result", success |-> TRUE,
                              puzzle |-> DiagPuzzleResult(r.grid, "diagnostic-fixed"),
                              attempts |-> 1, duration |-> "elapsed"]
                        ELSE [kind |-> "result", success |-> FALSE,
                              error |-> "Fixed diagnostic generation failed - no valid solution found",
                              attempts |-> 1, duration |-> "elapsed"]
    /\ drvPc' = "done"
    /\ UNCHANGED <<file, query, initialized, wordsByLength, positionIndex, wbResult,
                   options, attempts, lastError, selected, maxAttempts, calls, runQueue>>

DiagNext ==
    \/ DiagInitialize /\ UNCHANGED <<gaVars, genVars>>
    \/ DiagFill /\ UNCHANGED <<gaVars, genVars>>

\* one call of generateDiagnostic on a fresh word bank
SpecDiag == DiagInit /\ [][DiagNext]_vars

\* C21: a puzzle that generateDiagnostic returns with success = true has
\* different words in its across slot and in its down slot.
C21_DiagnosticNoRepeat ==
    (drvPc = "done" /\ drvResult.kind = "result" /\ drvResult.success) =>
        \A a \in 1..Len(drvResult.puzzle.across), d \in 1..Len(drvResult.puzzle.down) :
            drvResult.puzzle.across[a].answer # drvResult.puzzle.down[d].answer

----------------------------------------------------------------------------
(* WordBankProcessor: the pattern cache under changing queries *)

\* the queries the client alternates between
CacheQueries ==
    {[length |-> 3, pattern |-> AllWild(3)],
     [length |-> 3, pattern |-> <<"a", Wild, Wild>>],
     [length |-> 3, pattern |-> <<Wild, "b", Wild>>],
     [length |-> 4, pattern |-> <<"a", "b", Wild, Wild>>]}

CacheInit ==
    /\ GaIdle
    /\ GenIdle
    /\ DrvIdle
    /\ file \in Files
    /\ query \in CacheQueries
    /\ initialized = FALSE
    /\ wordsByLength = EmptyLists
    /\ positionIndex = <<>>
    /\ patternCache = <<>>
    /\ wbResult = NoResult

\* the client turns to another query
SetQuery ==
    /\ initialized
    /\ query' \in CacheQueries \ {query}
    /\ UNCHANGED <<file, initialized, wordsByLength, positionIndex, patternCache,
                   wbResult>>

CacheNext ==
    \/ initialize /\ UNCHANGED <<gaVars, genVars, drvVars>>
    \/ SetQuery /\ UNCHANGED <<gaVars, genVars, drvVars>>
    \/ FindWordsMatchingCall /\ UNCHANGED <<gaVars, genVars, drvVars>>
    \/ clearCache /\ UNCHANGED <<gaVars, genVars, drvVars>>

\* initialize, then any sequence of findWordsMatching (on several queries)
\* and clearCache
SpecCache == CacheInit /\ [][CacheNext]_vars

\* what findWordsMatching returns is what a cache miss computes from the store
ResultIsRecomputed ==
    FindReturned => wbResult.entries = ComputeMatching(wbResult.length, wbResult.pattern)

\* once initialized, no call changes the store, and no call changes the list
\* of a key that stays in the cache
StoreAndEntriesFrozen ==
    initialized =>
        /\ wordsByLength' = wordsByLength
        /\ positionIndex' = positionIndex
        /\ \A key \in DOMAIN patternCache \cap DOMAIN patternCache' :
              patternCache'[key] = patternCache[key]

\* C22: after initialization findWordsMatching(L, P) returns the same list on
\* a cache miss, on a cache hit and after clearCache (the list computed from
\* the store, which no call changes), and a cache entry is never changed by
\* later queries.
C22_CacheTransparent == []ResultIsRecomputed /\ [][StoreAndEntriesFrozen]_vars

\* C22 witness: a query is answered from a cache that holds the lists of
\* several queries, with some but not all entries of its length.
C22_Witness ==
    /\ FindReturned
    /\ wbResult.cached
    /\ Cardinality(DOMAIN patternCache) >= 3
    /\ wbResult.entries # <<>>
    /\ Len(wbResult.entries) < Len(wordsByLength[wbResult.length])

----------------------------------------------------------------------------
(* CrosswordGenerator (part_003): generate calls interleaved on the singleton *)

(***************************************************************************)
(* A call runs from one await to the next without interruption; its        *)
(* continuation is then queued behind the continuations already queued.    *)
(* usedWords, maxAttempts and the word bank belong to the singleton; the   *)
(* grid, the attempts counter and the fillGrid frames belong to the call.  *)
(* This specification covers the runs in which no time budget runs out.    *)
(***************************************************************************)

Calls == {"A", "B"}

NoFillGrid == [cells |-> <<>>, slots |-> <<>>, candidates |-> <<>>]

\* a generate call that has not been made
NotCalled ==
    [pc |-> "unstarted",
     options |-> [seed |-> NoSeed, templateId |-> "", maxAttempts |-> 0],
     attempts |-> 0, lastError |-> "", grid |-> NoFillGrid, stack |-> <<>>,
     ret |-> FALSE, result |-> NoReturn]

\* the options of the interleaved calls
ConcOptions ==
    [seed : {NoSeed}, templateId : {"t2", "zz"}, maxAttempts : 0..MaxAttemptsBound]

\* what a call has done when it reaches its next await or its return: its
\* locals, and the singleton's usedWords and pattern cache
Stretch(call, used, cache) == [call |-> call, usedWords |-> used, cache |-> cache]

Returned(frames) == SubSeq(frames, 1, Len(frames) - 1)

TopWord(frame) == frame.candidates[frame.k]

RECURSIVE CfEnter(_, _, _)
RECURSIVE CfLoop(_, _, _)

\* fillGrid, lines 845-873, entered by `call` on call.grid: up to the return
\* or to the await of line 897
CfEnter(call, used, cache) ==
    LET u == updateAllCandidates(call.grid, cache)
        g == [cells |-> call.grid.cells, slots |-> call.grid.slots,
              candidates |-> u.candidates]
        targetSlot == selectSlotMRV(g)
    IN  IF \E k \in 1..Len(g.slots) : g.candidates[k] = <<>>
        THEN Stretch([call EXCEPT !.grid = g, !.ret = FALSE], used, u.cache)
        ELSE IF targetSlot = 0
        THEN Stretch([call EXCEPT !.grid = g, !.ret = TRUE], used, u.cache)
        ELSE CfLoop([call EXCEPT
                        !.grid = g,
                        !.stack = Append(call.stack,
                            [target |-> targetSlot,
                             candidates |-> SortCandidates(g.candidates[targetSlot],
                                                g.slots[targetSlot].length),
                             k |-> 1,
                             savedPatterns |-> saveSlotPatterns(g)])],
                    used, u.cache)

\* fillGrid, lines 875-897 and 909: the candidate loop of the innermost frame
\* from its candidate k on
CfLoop(call, used, cache) ==
    LET frame == call.stack[Len(call.stack)]
    IN  IF frame.k > Len(frame.candidates)
        THEN Stretch([call EXCEPT !.stack = Returned(call.stack), !.ret = FALSE], used, cache)
        ELSE IF \/ TopWord(frame) \in used
                \/ ~isValidPlacement(TopWord(frame), call.grid.slots[frame.target],
                                     call.grid)
        THEN CfLoop([call EXCEPT !.stack[Len(call.stack)].k = frame.k + 1], used, cache)
        ELSE CfEnter([call EXCEPT
                         !.stack[Len(call.stack)].savedPatterns =
                             saveSlotPatterns(call.grid),
                         !.grid = placeWord(TopWord(frame), frame.target, call.grid)],
                     used \cup {TopWord(frame)}, cache)

\* fillGrid, lines 897-907: the innermost frame resumes with the value
\* call.ret of the call it awaited
CfResume(call, used, cache) ==
    LET frame == call.stack[Len(call.stack)]
    IN  IF call.ret
        THEN Stretch([call EXCEPT !.stack = Returned(call.stack)], used, cache)
        ELSE CfLoop([call EXCEPT
                        !.grid = removeWord(frame.target,
                                     restoreSlotPatterns(call.grid, frame.savedPatterns)),
                        !.stack[Len(call.stack)].k = frame.k + 1],
                    used \ {TopWord(frame)}, cache)

\* generate, lines 785-816 and 834-839: from the loop test to the await of
\* fillGrid or to the return; `limit` is this.maxAttempts as the call reads it
RECURSIVE CgLoop(_, _, _, _)
CgLoop(call, used, cache, limit) ==
    IF ~LoopContinues(call.attempts, limit)
    THEN Stretch([call EXCEPT
                     !.pc = "done",
                     !.result = FailureResult(IF call.lastError # "" THEN call.lastError
                                              ELSE "Max attempts exceeded",
                                              call.attempts)],
                 used, cache)
    ELSE LET t == getTemplateById(call.options.templateId)
             next == [call EXCEPT !.attempts = call.attempts + 1]
         IN  IF t = NoTemplate
             THEN CgLoop([next EXCEPT
                             !.lastError = TemplateNotFound(call.options.templateId)],
                         {}, cache, limit)
             ELSE CfEnter([next EXCEPT
                              !.pc = "fill",
                              !.grid = [cells |-> buildGrid(t.grid).cells,
                                        slots |-> buildGrid(t.grid).slots,
                                        candidates |-> <<>>],
                              !.stack = <<>>],
                          {}, cache)

\* generate, lines 816-826: the call resumes with the value of fillGrid
CgResume(call, used, cache, limit) ==
    IF call.ret
    THEN Stretch([call EXCEPT
                     !.pc = "done",
                     !.result = [kind |-> "result", success |-> TRUE,
                                 puzzle |-> buildPuzzleResult(call.grid,
                                                call.options.templateId,
                                                call.options.seed),
                                 attempts |-> call.attempts, duration |-> "elapsed"]],
                 used, cache)
    ELSE CgLoop(call, used, cache, limit)

ConcInit ==
    /\ GaIdle
    /\ GenIdle
    /\ file \in {f \in DrvFiles : f.exists}
    /\ query = [length |-> 3, pattern |-> AllWild(3)]
    /\ initialized = FALSE
    /\ wordsByLength = EmptyLists
    /\ positionIndex = <<>>
    /\ patternCache = <<>>
    /\ wbResult = NoResult
    /\ options = [seed |-> NoSeed, templateId |-> "", maxAttempts |-> 0]
    /\ attempts = 0
    /\ lastError = ""
    /\ usedWords = {}
    /\ selected = NoTemplate
    /\ drvPc = "idle"
    /\ drvResult = NoReturn
    /\ maxAttempts = defaultMaxAttempts
    /\ calls = [c \in Calls |-> NotCalled]
    /\ runQueue = <<>>

\* generator.generate(opts) is called: lines 773-780, up to the await of
\* initialize
ConcCall ==
    /\ \E c \in Calls, opts \in ConcOptions :
          /\ calls[c].pc = "unstarted"
          /\ \E r \in initializeOutcomes :
                /\ wordsByLength' = r.wordsByLength
                /\ positionIndex' = r.positionIndex
                /\ initialized' = r.initialized
                /\ calls' = [calls EXCEPT ![c] = [NotCalled EXCEPT !.pc = "init",
                                                                   !.options = opts]]
          /\ maxAttempts' = opts.maxAttempts
          /\ runQueue' = Append(runQueue, c)
    /\ UNCHANGED <<file, query, patternCache, wbResult, options, attempts, lastError,
                   usedWords, selected, drvPc, drvResult>>

\* the continuation at the head of the queue runs to its next await
ConcResume ==
    /\ runQueue # <<>>
    /\ \E c \in {Head(runQueue)} :
          \E s \in {IF calls[c].pc = "init"
                    THEN CgLoop(calls[c], usedWords, patternCache, maxAttempts)
                    ELSE IF calls[c].stack # <<>>
                    THEN CfResume(calls[c], usedWords, patternCache)
                    ELSE CgResume(calls[c], usedWords, patternCache, maxAttempts)} :
              /\ calls' = [calls EXCEPT ![c] = s.call]
              /\ usedWords' = s.usedWords
              /\ patternCache' = s.cache
              /\ runQueue' = IF s.call.pc = "done" THEN Tail(runQueue)
                             ELSE Append(Tail(runQueue), c)
    /\ UNCHANGED <<file, query, initialized, wordsByLength, positionIndex, wbResult,
                   options, attempts, lastError, selected, drvPc, drvResult,
                   maxAttempts>>

ConcNext ==
    \/ ConcCall /\ UNCHANGED <<gaVars, genVars>>
    \/ ConcResume /\ UNCHANGED <<gaVars, genVars>>

\* two generate calls on the singleton, the second made at any await of the
\* first
SpecConc == ConcInit /\ [][ConcNext]_vars

\* the words the suspended fillGrid frames of a call have placed and marked
MarkedBy(call) == {TopWord(call.stack[k]) : k \in 1..Len(call.stack)}

\* C23: a generate call makes no more attempts than its own maxAttempts, and
\* every word its suspended fillGrid frames have marked used is still in
\* usedWords, whatever the other call does meanwhile.
C23_CallsIsolated ==
    \A c \in DOMAIN calls :
        /\ calls[c].attempts <= calls[c].options.maxAttempts
        /\ calls[c].pc = "fill" => MarkedBy(calls[c]) \subseteq usedWords

----------------------------------------------------------------------------
(* CrosswordGenerator (part_003): updateAllCandidates, selectSlotMRV and *)
(* fillGrid on the grids that placeWord and removeWord produce            *)

FillMasks == {DiagnosticMask, ForkMask}

\* dictionaries of one and of three words of length 3
FillFiles ==
    {[exists |-> TRUE, lines |-> SubSeq(DictPool, 1, n)] : n \in {1, 3}}

\* the words placed before the calls: three of the dictionary, one foreign
FillWords ==
    {<<"a", "a", "b">>, <<"a", "b", "b">>, <<"a", "b", "a">>, <<"b", "a", "b">>}

FillInit ==
    /\ GenIdle
    /\ file \in FillFiles
    /\ query = [length |-> 3, pattern |-> AllWild(3)]
    /\ initialized = FALSE
    /\ wordsByLength = EmptyLists
    /\ positionIndex = <<>>
    /\ patternCache = <<>>
    /\ wbResult = NoResult
    /\ gaMask \in FillMasks
    /\ gaGrid = NoGrid
    /\ gaPlaced = <<>>
    /\ gaLast = NoCall
    /\ options = [seed |-> NoSeed, templateId |-> "", maxAttempts |-> 0]
    /\ attempts = 0
    /\ lastError = ""
    /\ usedWords \in {{}, {<<"a", "a", "b">>}}
    /\ selected = NoTemplate
    /\ drvPc = "idle"
    /\ drvResult = NoReturn
    /\ maxAttempts = defaultMaxAttempts
    /\ calls = <<>>
    /\ runQueue = <<>>

FillUnchanged ==
    UNCHANGED <<genVars, options, attempts, lastError, selected, drvPc, drvResult,
                maxAttempts, calls, runQueue>>

\* updateAllCandidates(grid): slot.candidates is kept in the call record
GaUpdateAllCandidates ==
    /\ gaLast.op \in {"build", "place", "remove"}
    /\ \E u \in {updateAllCandidates(gaGrid, patternCache)} :
          /\ patternCache' = u.cache
          /\ gaLast' = [op |-> "candidates", slot |-> 0, length |-> 0,
                        outcome |-> "ok", had |-> FALSE,
                        result |-> [candidates |-> u.candidates, bestSlot |-> 0]]
    /\ UNCHANGED <<file, query, initialized, wordsByLength, positionIndex, wbResult,
                   gaMask, gaGrid, gaPlaced, usedWords>>

\* selectSlotMRV(grid) on the candidates updateAllCandidates has left
GaSelectSlotMRV ==
    /\ gaLast.op = "candidates"
    /\ gaLast' = [gaLast EXCEPT
                     !.op = "mrv",
                     !.result.bestSlot =
                         selectSlotMRV([cells |-> gaGrid.cells, slots |-> gaGrid.slots,
                                        candidates |-> gaLast.result.candidates])]
    /\ UNCHANGED <<wbVars, gaMask, gaGrid, gaPlaced, usedWords>>

\* fillGrid(grid, startTime) on the grid as it stands
GaFillGrid ==
    /\ gaLast.op \in {"build", "place", "remove"}
    /\ \E r \in fillGrid(gaGrid, usedWords, patternCache, FALSE) :
          /\ gaGrid' = [cells |-> r.grid.cells, slots |-> r.grid.slots]
          /\ gaPlaced' = [i \in 1..Len(gaGrid.slots) |->
                            IF r.grid.slots[i].pattern # gaGrid.slots[i].pattern
                            THEN r.grid.slots[i].pattern ELSE gaPlaced[i]]
          /\ usedWords' = r.usedWords
          /\ patternCache' = r.cache
          /\ gaLast' = [op |-> "fill", slot |-> 0, length |-> 0,
                        outcome |-> IF r.threw THEN "throw" ELSE "ok", had |-> FALSE,
                        result |-> [success |-> r.success, expired |-> r.expired,
                                    candidates |-> r.grid.candidates]]
    /\ UNCHANGED <<file, query, initialized, wordsByLength, positionIndex, wbResult,
                   gaMask>>

FillNext ==
    \/ ~initialized /\ initialize /\ UNCHANGED <<gaVars, genVars, drvVars>>
    \/ initialized /\ GaBuildGrid /\ UNCHANGED <<wbVars, genVars, drvVars>>
    \/ gaLast.op \in {"build", "place", "remove"} /\ GaPlaceWordOf(FillWords)
          /\ UNCHANGED <<wbVars, genVars, drvVars>>
    \/ gaLast.op \in {"build", "place", "remove"} /\ GaRemoveWord
          /\ UNCHANGED <<wbVars, genVars, drvVars>>
    \/ GaUpdateAllCandidates /\ FillUnchanged
    \/ GaSelectSlotMRV /\ FillUnchanged
    \/ GaFillGrid /\ FillUnchanged

\* initialize, buildGrid, any sequence of placeWord and removeWord, then
\* updateAllCandidates and selectSlotMRV, or fillGrid
SpecFill == FillInit /\ [][FillNext]_vars

----------------------------------------------------------------------------
(* updateAllCandidates, selectSlotMRV, fillGrid: properties *)

Unfilled(slot) == Wild \in Range(slot.pattern)

SameLetters(cellsA, cellsB) ==
    \A cell \in Cells : cellsA[cell].letter = cellsB[cell].letter

SamePatterns(slotsA, slotsB) ==
    /\ Len(slotsA) = Len(slotsB)
    /\ \A i \in 1..Len(slotsA) : slotsA[i].pattern = slotsB[i].pattern

\* C24: a fillGrid call entered on a grid whose slot patterns hold no
\* wildcard returns success.
C24_FilledGridSucceeds ==
    [][(gaLast'.op = "fill" /\ \A i \in GaSlotIds : ~Unfilled(gaGrid.slots[i]))
          => gaLast'.result.success]_vars

\* some unfilled slot has no candidate once the candidates are recomputed
DeadEnd(grid, cache) ==
    \E u \in {updateAllCandidates(grid, cache)} :
        \E i \in 1..Len(grid.slots) :
            Unfilled(grid.slots[i]) /\ u.candidates[i] = <<>>

\* C25: a fillGrid call that finds, after recomputing the candidates, an
\* unfilled slot without candidates returns failure at once: no word is
\* placed, no cell letter and no slot pattern changes, usedWords is as before.
C25_DeadEndFailsAtOnce ==
    [][(gaLast'.op = "fill" /\ DeadEnd(gaGrid, patternCache)) =>
          /\ ~gaLast'.result.success
          /\ ~gaLast'.result.expired
          /\ SameLetters(gaGrid'.cells, gaGrid.cells)
          /\ SamePatterns(gaGrid'.slots, gaGrid.slots)
          /\ gaPlaced' = gaPlaced
          /\ usedWords' = usedWords]_vars

\* C25 witness: fillGrid has failed on a grid in which one unfilled slot had
\* no candidate while another had some.
C25_Witness ==
    /\ gaLast.op = "fill"
    /\ ~gaLast.result.success
    /\ \E i, j \in GaSlotIds :
          /\ Unfilled(gaGrid.slots[i]) /\ gaLast.result.candidates[i] = <<>>
          /\ Unfilled(gaGrid.slots[j]) /\ gaLast.result.candidates[j] # <<>>
    /\ \E cell \in Cells : gaGrid.cells[cell].letter # NoLetter

\* C26: selectSlotMRV returns null iff no slot is unfilled; when every
\* unfilled slot has a candidate it returns the first slot, in slot order,
\* among the unfilled slots of least candidate count that have the most
\* intersections.
C26_MrvChoice ==
    gaLast.op = "mrv" =>
        LET best == gaLast.result.bestSlot
            unfilled == {i \in GaSlotIds : Unfilled(gaGrid.slots[i])}
            count == [i \in GaSlotIds |-> Len(gaLast.result.candidates[i])]
            crossings == [i \in GaSlotIds |->
                             Cardinality(ExpectedCrossings(gaGrid.slots[i]))]
        IN  /\ best = 0 <=> unfilled = {}
            /\ (unfilled # {} /\ \A i \in unfilled : count[i] >= 1) =>
                  /\ best \in unfilled
                  /\ \A i \in unfilled :
                        /\ count[best] <= count[i]
                        /\ count[i] = count[best] => crossings[i] <= crossings[best]
                        /\ (count[i] = count[best] /\ crossings[i] = crossings[best])
                           => best <= i

\* C26 witness: the slot returned comes after an unfilled slot with as many
\* candidates and fewer intersections.
C26_Witness ==
    /\ gaLast.op = "mrv"
    /\ gaLast.result.bestSlot > 1
    /\ \A i \in GaSlotIds :
          Unfilled(gaGrid.slots[i]) => gaLast.result.candidates[i] # <<>>
    /\ \E i \in 1..(gaLast.result.bestSlot - 1) :
          /\ Unfilled(gaGrid.slots[i])
          /\ Len(gaLast.result.candidates[i])
                = Len(gaLast.result.candidates[gaLast.result.bestSlot])
          /\ Cardinality(ExpectedCrossings(gaGrid.slots[i]))
                < Cardinality(ExpectedCrossings(gaGrid.slots[gaLast.result.bestSlot]))

\* C27: a fillGrid call that returns failure leaves every cell letter, every
\* slot pattern and usedWords as they were when it was entered.
C27_FailureRestoresState ==
    [][(gaLast'.op = "fill" /\ ~gaLast'.result.success) =>
          /\ SameLetters(gaGrid'.cells, gaGrid.cells)
          /\ SamePatterns(gaGrid'.slots, gaGrid.slots)
          /\ usedWords' = usedWords]_vars

\* C27 witness: fillGrid has failed, within its time budget, on a grid that
\* held a letter and on which every slot had a candidate at entry; a word
\* was placed (its slot was left without candidates) and taken back.
C27_Witness ==
    /\ gaLast.op = "fill"
    /\ ~gaLast.result.success
    /\ ~gaLast.result.expired
    /\ usedWords # {}
    /\ \E cell \in Cells : gaGrid.cells[cell].letter # NoLetter
    /\ \A i \in GaSlotIds : Unfilled(gaGrid.slots[i])
    /\ ~DeadEnd(gaGrid, <<>>)
    /\ \E i \in GaSlotIds : gaLast.result.candidates[i] = <<>>

====
